---- MODULE Spec2Model ----
(***************************************************************************)
(* A model of the asc version control system (axololly/vcs): the           *)
(* repository aggregate with its action history (undo / redo), and the     *)
(* sync conversations (login, clone, pull, push) between a local and a     *)
(* remote repository.                                                      *)
(*                                                                         *)
(* Snapshot hashes are the numbers 1..NumHashes.  The hash of a snapshot   *)
(* fixes its parents field, so the parents of every possible snapshot are  *)
(* given by SnapshotParents: snapshot 1 is the root snapshot made by       *)
(* Repository::create_new, and a commit made on top of h is 2h or 2h+1.    *)
(* Content blobs are not modelled: a stored snapshot is a member of the    *)
(* objects field of a repository.                                          *)
(* local and remote are the Repository values the handlers hold; between   *)
(* two commands or conversations they are what is on disk.  The byte       *)
(* framing of a Stream, the current user cell and the working directory    *)
(* are modelled in specifications of their own (StreamSpec, UserSpec,      *)
(* CwdSpec).                                                               *)
(***************************************************************************)
EXTENDS Integers, Sequences, FiniteSets, TLC

VARIABLES
    local,      \* the Repository of the local operator (the sync client)
    remote,     \* the Repository served by the sync server
    obs,        \* observer: the last recorded action with the state before and after it
    scn,        \* observer: progress of the create / rename / undo / undo / redo / redo scenario
    conv,       \* the pull or push conversation in progress between local and remote
    srv,        \* the server side of one conversation with an arbitrary client
    net,        \* one direction of a Stream: the bytes written, in flight and read
    cwd,        \* the working directory, the staged files and the files of the snapshots
    call,       \* the last call of current_user() and how it ended
    graph,      \* a Graph value under the operations of its interface
    fetch       \* the object stores of a client and a server, and a fetch of objects between them

vars == <<local, remote, obs, scn, conv, srv, net, cwd, call, graph, fetch>>

----------------------------------------------------------------------------
(* Bounds *)

NumHashes == 4
MaxHistory == 2
MaxCommits == 2
MaxSyncHistory == 4
MaxSteps == 2

Hashes == 1..NumHashes

----------------------------------------------------------------------------
(* Snapshots and users *)

\* The parents field of the snapshot whose hash is h.
SnapshotParents(h) == IF h = 1 THEN {} ELSE {h \div 2}

RootHash == 1

\* The ancestors of a snapshot, itself included, as its parents fields give them.
RECURSIVE Ancestors(_)
Ancestors(h) == {h} \cup UNION {Ancestors(p) : p \in SnapshotParents(h)}

\* The key pair made for the first user by create_new.
FirstUser == "k1"

Keys == {"k1", "k2"}

\* User::with_permissions: a fresh key pair, the account is open.
User_new(username) ==
    [name |-> username, closed |-> FALSE, can_push |-> FALSE,
     can_pull |-> FALSE, private_key |-> TRUE]

----------------------------------------------------------------------------
(* NamedHashes: a map name -> hash *)

NamedHashes_new == [n \in {} |-> 0]

NamedHashes_create(m, name, hash) ==
    [n \in DOMAIN m \cup {name} |-> IF n = name THEN hash ELSE m[n]]

NamedHashes_contains(m, name) == name \in DOMAIN m

NamedHashes_remove(m, name) == [n \in DOMAIN m \ {name} |-> m[n]]

NamedHashes_rename(m, old, new) ==
    IF old \notin DOMAIN m
    THEN m
    ELSE NamedHashes_create(NamedHashes_remove(m, old), new, m[old])

NamedHashes_hashes(m) == {m[n] : n \in DOMAIN m}

----------------------------------------------------------------------------
(* Graph: a map hash -> set of parent hashes *)

Graph_new == [h \in {} |-> {}]

Graph_contains(g, hash) == hash \in DOMAIN g

Graph_insert_orphan(g, hash) ==
    [h \in DOMAIN g \cup {hash} |-> IF h = hash THEN {} ELSE g[h]]

Graph_insert(g, hash, parent) ==
    LET g1 == IF Graph_contains(g, parent) THEN g ELSE Graph_insert_orphan(g, parent)
        old == IF hash \in DOMAIN g1 THEN g1[hash] ELSE {}
    IN  [h \in DOMAIN g1 \cup {hash} |-> IF h = hash THEN old \cup {parent} ELSE g1[h]]

\* insert() over a set of (hash, parent) pairs, one after the other.
RECURSIVE Graph_insert_all(_, _)
Graph_insert_all(g, edges) ==
    IF edges = {}
    THEN g
    ELSE LET e == CHOOSE x \in edges : TRUE
         IN  Graph_insert_all(Graph_insert(g, e[1], e[2]), edges \ {e})

Graph_edges(g) == {e \in (DOMAIN g) \X Hashes : e[2] \in g[e[1]]}

Graph_extend(g, other) == Graph_insert_all(g, Graph_edges(other))

\* is_descendant(a, b): breadth-first search from a along parent edges.
\* The result is "true", "false", or "error" when a visited hash has no
\* entry in the graph.  The queue is processed one level at a time.
RECURSIVE Graph_bfs(_, _, _, _)
Graph_bfs(g, frontier, seen, b) ==
    IF frontier = {} THEN "false"
    ELSE IF b \in frontier THEN "true"
    ELSE IF \E n \in frontier : n \notin DOMAIN g THEN "error"
    ELSE LET next == UNION {g[n] : n \in frontier}
         IN  Graph_bfs(g, next \ (seen \cup frontier), seen \cup frontier, b)

Graph_is_descendant(g, a, b) == Graph_bfs(g, {a}, {}, b)

----------------------------------------------------------------------------
(* Action and ActionHistory *)

CreateBranch(name, hash) == [type |-> "CreateBranch", name |-> name, hash |-> hash]
DeleteBranch(name, hash) == [type |-> "DeleteBranch", name |-> name, hash |-> hash]
MoveBranch(name, old, new) == [type |-> "MoveBranch", name |-> name, old |-> old, new |-> new]
RenameBranch(hash, old, new) == [type |-> "RenameBranch", hash |-> hash, old |-> old, new |-> new]
SwitchVersion(before, after) == [type |-> "SwitchVersion", before |-> before, after |-> after]
CreateTag(name, hash) == [type |-> "CreateTag", name |-> name, hash |-> hash]
RemoveTag(name, hash) == [type |-> "RemoveTag", name |-> name, hash |-> hash]
RenameTag(old, new, hash) == [type |-> "RenameTag", old |-> old, new |-> new, hash |-> hash]
TrashAdd(hash) == [type |-> "TrashAdd", hash |-> hash]
TrashRecover(hash) == [type |-> "TrashRecover", hash |-> hash]
OpenAccount(name, id) == [type |-> "OpenAccount", name |-> name, id |-> id]
CloseAccount(name, id) == [type |-> "CloseAccount", name |-> name, id |-> id]
RenameAccount(old, new, id) == [type |-> "RenameAccount", old |-> old, new |-> new, id |-> id]

ActionHistory_new == [inner |-> <<>>, index |-> 0]

\* A push that appends without truncating; C39 fails for it.
ActionHistory_push_keeps_undone(ah, action) ==
    [inner |-> Append(ah.inner, action), index |-> ah.index + 1]

ActionHistory_push(ah, action) ==
    [inner |-> Append(SubSeq(ah.inner, 1, ah.index), action), index |-> ah.index + 1]

\* undo and redo move the cursor; the action they return is
\* ActionHistory_undone / ActionHistory_redone.
ActionHistory_can_undo(ah) == ah.index # 0

ActionHistory_undo(ah) == [ah EXCEPT !.index = ah.index - 1]

ActionHistory_undone(ah) == ah.inner[ah.index]

ActionHistory_can_redo(ah) == ~(ah.index + 1 > Len(ah.inner))

ActionHistory_redo(ah) == [ah EXCEPT !.index = ah.index + 1]

ActionHistory_redone(ah) == ah.inner[ah.index + 1]

----------------------------------------------------------------------------
(* Trash: a list of hashes *)

Trash_add(t, hash) == Append(t, hash)

Trash_contains(t, hash) == \E i \in 1..Len(t) : t[i] = hash

Trash_remove(t, hash) ==
    IF ~Trash_contains(t, hash)
    THEN t
    ELSE LET i == CHOOSE j \in 1..Len(t) :
                      t[j] = hash /\ \A k \in 1..(j - 1) : t[k] # hash
         IN  SubSeq(t, 1, i - 1) \o SubSeq(t, i + 1, Len(t))

----------------------------------------------------------------------------
(* Repository *)

ProjectCode == "code-A"

\* Repository::create_new: the root snapshot is an orphan of the DAG, the
\* branch main points at it, and the first user is the current user.
Repository_create_new ==
    [project_code   |-> ProjectCode,
     history        |-> Graph_insert_orphan(Graph_new, RootHash),
     action_history |-> ActionHistory_new,
     branches       |-> NamedHashes_create(NamedHashes_new, "main", RootHash),
     current_hash   |-> RootHash,
     trash          |-> <<>>,
     tags           |-> NamedHashes_new,
     users          |-> [k \in {FirstUser} |-> User_new("axo")],
     current_user   |-> FirstUser,
     objects        |-> {RootHash}]

\* The key that signed the snapshot with hash h.
SnapshotAuthor(h) == FirstUser

\* current_branch / branch_from_hash: the names whose tip is the hash; the
\* code returns the first one in the iteration order of a HashMap.
Repository_branch_from_hash(r, hash) ==
    {n \in DOMAIN r.branches : r.branches[n] = hash}

Repository_has_account(r, id) == id \in DOMAIN r.users

Repository_apply_action_ok(r, action) ==
    action.type \in {"CloseAccount", "OpenAccount", "RenameAccount"}
        => Repository_has_account(r, action.id)

Repository_apply_action(r, action) ==
    CASE action.type = "CreateBranch" ->
            [r EXCEPT !.branches = NamedHashes_remove(r.branches, action.name)]
      [] action.type = "DeleteBranch" ->
            [r EXCEPT !.branches = NamedHashes_create(r.branches, action.name, action.hash)]
      [] action.type = "MoveBranch" ->
            [r EXCEPT !.branches = NamedHashes_create(r.branches, action.name, action.new)]
      [] action.type = "RenameBranch" ->
            [r EXCEPT !.branches = NamedHashes_rename(r.branches, action.old, action.new)]
      [] action.type = "SwitchVersion" ->
            [r EXCEPT !.current_hash = action.after]
      [] action.type = "CreateTag" ->
            [r EXCEPT !.tags = NamedHashes_create(r.tags, action.name, action.hash)]
      [] action.type = "RemoveTag" ->
            [r EXCEPT !.tags = NamedHashes_remove(r.tags, action.name)]
      [] action.type = "RenameTag" ->
            [r EXCEPT !.tags = NamedHashes_rename(r.tags, action.old, action.new)]
      [] action.type = "CloseAccount" ->
            [r EXCEPT !.users[action.id].closed = TRUE]
      [] action.type = "OpenAccount" ->
            [r EXCEPT !.users[action.id].closed = TRUE]
      [] action.type = "RenameAccount" ->
            [r EXCEPT !.users[action.id].name = action.new]
      [] action.type = "TrashAdd" ->
            [r EXCEPT !.trash = Trash_add(r.trash, action.hash)]
      [] action.type = "TrashRecover" ->
            [r EXCEPT !.trash = Trash_remove(r.trash, action.hash)]

\* The inverse computed by undo_action.
Action_inverse(action) ==
    CASE action.type = "CreateBranch" -> DeleteBranch(action.name, action.hash)
      [] action.type = "DeleteBranch" -> CreateBranch(action.name, action.hash)
      [] action.type = "MoveBranch" -> MoveBranch(action.name, action.new, action.old)
      [] action.type = "RenameBranch" -> RenameBranch(action.hash, action.new, action.old)
      [] action.type = "SwitchVersion" -> SwitchVersion(action.after, action.before)
      [] action.type = "CreateTag" -> RemoveTag(action.name, action.hash)
      [] action.type = "RemoveTag" -> CreateTag(action.name, action.hash)
      [] action.type = "RenameTag" -> RenameTag(action.new, action.old, action.hash)
      [] action.type = "OpenAccount" -> CloseAccount(action.name, action.id)
      [] action.type = "CloseAccount" -> OpenAccount(action.name, action.id)
      [] action.type = "RenameAccount" -> RenameAccount(action.new, action.old, action.id)
      [] action.type = "TrashAdd" -> TrashRecover(action.hash)
      [] action.type = "TrashRecover" -> TrashAdd(action.hash)

\* undo_action, when the history has an action to undo.
Repository_undo_action(r) ==
    LET action  == ActionHistory_undone(r.action_history)
        r1      == [r EXCEPT !.action_history = ActionHistory_undo(r.action_history)]
    IN  Repository_apply_action(r1, Action_inverse(action))

\* redo_action, when the history has an action to redo.
Repository_redo_action(r) ==
    LET action  == ActionHistory_redone(r.action_history)
        r1      == [r EXCEPT !.action_history = ActionHistory_redo(r.action_history)]
    IN  Repository_apply_action(r1, action)

\* save_snapshot up to its check of the author: the parent edges are added
\* to the DAG first.
Repository_save_snapshot_edges(r, hash) ==
    [r EXCEPT !.history =
        Graph_insert_all(r.history, {<<hash, p>> : p \in SnapshotParents(hash)})]

Repository_save_snapshot_ok(r, hash) == Repository_has_account(r, SnapshotAuthor(hash))

\* save_snapshot: with a known author the snapshot is written to disk.
Repository_save_snapshot(r, hash) ==
    LET r1 == Repository_save_snapshot_edges(r, hash)
    IN  IF Repository_save_snapshot_ok(r, hash)
        THEN [r1 EXCEPT !.objects = r1.objects \cup {hash}]
        ELSE r1

\* An append that moves HEAD and leaves every branch where it is; C19 fails
\* for it.
Repository_append_snapshot_internal_moves_no_branch(r, hash, branch_name) ==
    [Repository_save_snapshot(r, hash) EXCEPT !.current_hash = hash]

\* append_snapshot_internal, when save_snapshot succeeds.
Repository_append_snapshot_internal(r, hash, branch_name) ==
    LET r1 == IF branch_name = {}
              THEN r
              ELSE [r EXCEPT !.branches =
                       NamedHashes_create(r.branches, CHOOSE n \in branch_name : TRUE, hash)]
        r2 == Repository_save_snapshot(r1, hash)
    IN  [r2 EXCEPT !.current_hash = hash]

\* The hashes reached from a set of hashes along the parent edges of the DAG.
RECURSIVE Graph_reach(_, _, _)
Graph_reach(g, frontier, seen) ==
    IF frontier = {}
    THEN seen
    ELSE LET next == UNION {IF n \in DOMAIN g THEN g[n] ELSE {} : n \in frontier}
         IN  Graph_reach(g, next \ (seen \cup frontier), seen \cup frontier)

\* validate_history: every snapshot reached from a branch tip loads from
\* disk, has the parents the DAG gives it, and is signed by a known user.
Repository_validate_history(r) ==
    \A h \in Graph_reach(r.history, NamedHashes_hashes(r.branches), {}) :
        /\ h \in r.objects
        /\ h \in DOMAIN r.history
        /\ r.history[h] = SnapshotParents(h)
        /\ Repository_has_account(r, SnapshotAuthor(h))

\* current_user(): the selected user, unless it is missing, closed or has
\* no private key.
Repository_current_user_valid(r) ==
    /\ r.current_user \in DOMAIN r.users
    /\ ~r.users[r.current_user].closed
    /\ r.users[r.current_user].private_key

----------------------------------------------------------------------------
(* Observers *)

\* What undo and redo are meant to preserve.
View(r) ==
    [branches |-> r.branches, tags |-> r.tags, current_hash |-> r.current_hash,
     users |-> r.users, trash |-> r.trash, index |-> r.action_history.index]

\* A command performed `action` on r0 and recorded it, giving r1.
Obs_recorded(action, r0, r1) ==
    [stage |-> 1, action |-> action, pre |-> View(r0), post |-> View(r1)]

Obs_none == [stage |-> 0]

Obs_undo(o) == IF o.stage = 1 THEN [o EXCEPT !.stage = 2] ELSE Obs_none

Obs_redo(o) == IF o.stage = 2 THEN [o EXCEPT !.stage = 3] ELSE Obs_none

\* The scenario: branch new dev; branch rename dev feature; undo; undo;
\* redo; redo.  cmd is the command that was run, r0 the repository before it.
Scn_none == [stage |-> 0]

Scn_step(s, cmd, r0) ==
    CASE cmd = <<"new", "dev", 0>>
            /\ "dev" \notin DOMAIN r0.branches
            /\ "feature" \notin DOMAIN r0.branches ->
                [stage |-> 1, pre |-> r0.branches, head |-> r0.current_hash]
      [] s.stage = 1 /\ cmd = <<"rename", "dev", "feature">> -> [s EXCEPT !.stage = 2]
      [] s.stage \in {2, 3} /\ cmd = <<"undo">> -> [s EXCEPT !.stage = s.stage + 1]
      [] s.stage \in {4, 5} /\ cmd = <<"redo">> -> [s EXCEPT !.stage = s.stage + 1]
      [] OTHER -> Scn_none

----------------------------------------------------------------------------
(* Commands on the local repository.  Every command loads the repository,  *)
(* changes it and ends with Repository::save, which refuses to write a     *)
(* repository whose history does not validate.                             *)

BranchNames == {"dev", "feature"}
TagNames == {"v1", "v2"}

CanRecord(r) == r.action_history.index < MaxHistory

Record(r, action) ==
    [r EXCEPT !.action_history = ActionHistory_push(r.action_history, action)]

\* No conversation is in progress; prev describes the conversation that ended
\* last when nothing has happened since.
NoConv == [kind |-> "none"]
Conv_idle == [phase |-> "idle", prev |-> NoConv]
Srv_idle == [pc |-> "idle"]

SyncIdle == conv.phase = "idle"

\* A stream on which nothing was written yet.
Net_new == [sent |-> <<>>, pipe |-> <<>>, wire |-> <<>>, read_extra |-> <<>>, received |-> <<>>]

\* The paths of the working directory.
Paths == {"a", "b"}

\* The working directory of a new repository: no file (content 0 stands for
\* a path that does not exist), nothing staged, an empty stash, and the
\* root snapshot, which HEAD is on, has no file.
Cwd_new ==
    [files |-> [path \in Paths |-> 0], staged_files |-> {},
     head |-> [path \in {} |-> 0], stash |-> <<>>, stash_count |-> 0,
     last |-> [op |-> "none"]]

Call_none == [op |-> "none"]

\* asc branch new <name> [basis]; basis 0 stands for no basis.
BranchNew(name, basis) ==
    /\ SyncIdle /\ CanRecord(local)
    /\ ~NamedHashes_contains(local.branches, name)
    /\ LET base_version == IF basis = 0 THEN local.current_hash ELSE basis
           action == CreateBranch(name, local.current_hash)
           r1 == [local EXCEPT !.branches = NamedHashes_create(local.branches, name, base_version)]
           r2 == Record(r1, action)
       IN  /\ Repository_validate_history(r2)
           /\ local' = r2
           /\ obs' = Obs_recorded(action, local, r2)
           /\ scn' = Scn_step(scn, <<"new", name, basis>>, local)
    /\ conv' = Conv_idle
    /\ UNCHANGED <<net, cwd, call, graph, fetch, remote, srv>>

\* asc branch rename <old> <new>
BranchRename(old, new) ==
    /\ SyncIdle /\ CanRecord(local)
    /\ NamedHashes_contains(local.branches, old)
    /\ LET commit_hash == local.branches[old]
           action == RenameBranch(commit_hash, old, new)
           r1 == [local EXCEPT !.branches =
                     NamedHashes_create(NamedHashes_remove(local.branches, old), new, commit_hash)]
           r2 == Record(r1, action)
       IN  /\ Repository_validate_history(r2)
           /\ local' = r2
           /\ obs' = Obs_recorded(action, local, r2)
           /\ scn' = Scn_step(scn, <<"rename", old, new>>, local)
    /\ conv' = Conv_idle
    /\ UNCHANGED <<net, cwd, call, graph, fetch, remote, srv>>

\* asc branch delete <name>
BranchDelete(name) ==
    /\ SyncIdle /\ CanRecord(local)
    /\ NamedHashes_contains(local.branches, name)
    /\ LET action == DeleteBranch(name, local.branches[name])
           r1 == [local EXCEPT !.branches = NamedHashes_remove(local.branches, name)]
           r2 == Record(r1, action)
       IN  /\ Repository_validate_history(r2)
           /\ local' = r2
           /\ obs' = Obs_recorded(action, local, r2)
           /\ scn' = Scn_step(scn, <<"delete", name>>, local)
    /\ conv' = Conv_idle
    /\ UNCHANGED <<net, cwd, call, graph, fetch, remote, srv>>

\* asc tag create <name> <version>: a new tag is recorded; an existing tag
\* is overwritten after the user confirms, and nothing is recorded.
TagCreate(name, hash) ==
    /\ SyncIdle /\ CanRecord(local)
    /\ LET action == CreateTag(name, hash)
           r1 == [local EXCEPT !.tags = NamedHashes_create(local.tags, name, hash)]
           r2 == IF NamedHashes_contains(local.tags, name) THEN r1 ELSE Record(r1, action)
       IN  /\ Repository_validate_history(r2)
           /\ local' = r2
           /\ obs' = IF NamedHashes_contains(local.tags, name)
                     THEN Obs_none
                     ELSE Obs_recorded(action, local, r2)
           /\ scn' = Scn_step(scn, <<"tag", name>>, local)
    /\ conv' = Conv_idle
    /\ UNCHANGED <<net, cwd, call, graph, fetch, remote, srv>>

\* asc tag delete <name>
TagDelete(name) ==
    /\ SyncIdle /\ CanRecord(local)
    /\ NamedHashes_contains(local.tags, name)
    /\ LET action == RemoveTag(name, local.tags[name])
           r1 == [local EXCEPT !.tags = NamedHashes_remove(local.tags, name)]
           r2 == Record(r1, action)
       IN  /\ Repository_validate_history(r2)
           /\ local' = r2
           /\ obs' = Obs_recorded(action, local, r2)
           /\ scn' = Scn_step(scn, <<"untag", name>>, local)
    /\ conv' = Conv_idle
    /\ UNCHANGED <<net, cwd, call, graph, fetch, remote, srv>>

\* asc tag rename <old> <new>
TagRename(old, new) ==
    /\ SyncIdle /\ CanRecord(local)
    /\ NamedHashes_contains(local.tags, old)
    /\ LET hash == local.tags[old]
           action == RenameTag(old, new, hash)
           r1 == [local EXCEPT !.tags =
                     NamedHashes_create(NamedHashes_remove(local.tags, old), new, hash)]
           r2 == Record(r1, action)
       IN  /\ Repository_validate_history(r2)
           /\ local' = r2
           /\ obs' = Obs_recorded(action, local, r2)
           /\ scn' = Scn_step(scn, <<"retag", old, new>>, local)
    /\ conv' = Conv_idle
    /\ UNCHANGED <<net, cwd, call, graph, fetch, remote, srv>>

\* asc user close <username> / asc user reopen <username>, run by the operator
\* of the served repository: no action is recorded.
UserClose(id) ==
    /\ SyncIdle /\ srv = Srv_idle
    /\ id \in DOMAIN remote.users /\ ~remote.users[id].closed
    /\ LET r1 == [remote EXCEPT !.users[id].closed = TRUE]
       IN  /\ Repository_validate_history(r1)
           /\ remote' = r1
    /\ conv' = Conv_idle
    /\ UNCHANGED <<net, cwd, call, graph, fetch, local, obs, scn, srv>>

UserReopen(id) ==
    /\ SyncIdle /\ srv = Srv_idle
    /\ id \in DOMAIN remote.users /\ remote.users[id].closed
    /\ LET r1 == [remote EXCEPT !.users[id].closed = FALSE]
       IN  /\ Repository_validate_history(r1)
           /\ remote' = r1
    /\ conv' = Conv_idle
    /\ UNCHANGED <<net, cwd, call, graph, fetch, local, obs, scn, srv>>

\* asc user permissions <username> <permissions> on the served repository
UserPermissions(id, push, pull) ==
    /\ SyncIdle /\ srv = Srv_idle
    /\ id \in DOMAIN remote.users
    /\ LET r1 == [remote EXCEPT !.users[id].can_push = push, !.users[id].can_pull = pull]
       IN  /\ Repository_validate_history(r1)
           /\ remote' = r1
    /\ conv' = Conv_idle
    /\ UNCHANGED <<net, cwd, call, graph, fetch, local, obs, scn, srv>>

\* The hashes of the snapshots that exist in some repository.
Created == DOMAIN local.history \cup DOMAIN remote.history

\* A new snapshot on top of h: its parents field is {h} and its hash is one
\* that no repository has seen (the least such number stands for it).
NewSnapshots(h) ==
    LET fresh == {c \in Hashes \ Created : SnapshotParents(c) = {h}}
    IN  {c \in fresh : \A d \in fresh : c <= d}

\* Commit on the local repository: commit_current_state needs a valid
\* current user; append_snapshot moves the branch HEAD is on, if any.
Commit(hash) ==
    /\ SyncIdle
    /\ Cardinality(DOMAIN local.history) <= MaxCommits
    /\ hash \in NewSnapshots(local.current_hash)
    /\ Repository_current_user_valid(local)
    /\ Repository_save_snapshot_ok(local, hash)
    /\ LET on == Repository_branch_from_hash(local, local.current_hash)
       IN  \E branch_name \in (IF on = {} THEN {{}} ELSE {{n} : n \in on}) :
             LET r1 == Repository_append_snapshot_internal(local, hash, branch_name)
             IN  /\ Repository_validate_history(r1)
                 /\ local' = r1
    /\ obs' = Obs_none
    /\ scn' = Scn_step(scn, <<"commit">>, local)
    /\ conv' = Conv_idle
    /\ UNCHANGED <<net, cwd, call, graph, fetch, remote, srv>>

\* asc undo (one action)
Undo ==
    /\ SyncIdle
    /\ ActionHistory_can_undo(local.action_history)
    /\ Repository_apply_action_ok(local, Action_inverse(ActionHistory_undone(local.action_history)))
    /\ LET r1 == Repository_undo_action(local)
       IN  /\ Repository_validate_history(r1)
           /\ local' = r1
    /\ obs' = Obs_undo(obs)
    /\ scn' = Scn_step(scn, <<"undo">>, local)
    /\ conv' = Conv_idle
    /\ UNCHANGED <<net, cwd, call, graph, fetch, remote, srv>>

\* asc redo (one action)
Redo ==
    /\ SyncIdle
    /\ ActionHistory_can_redo(local.action_history)
    /\ Repository_apply_action_ok(local, ActionHistory_redone(local.action_history))
    /\ LET r1 == Repository_redo_action(local)
       IN  /\ Repository_validate_history(r1)
           /\ local' = r1
    /\ obs' = Obs_redo(obs)
    /\ scn' = Scn_step(scn, <<"redo">>, local)
    /\ conv' = Conv_idle
    /\ UNCHANGED <<net, cwd, call, graph, fetch, remote, srv>>

----------------------------------------------------------------------------
(* The object store: snapshots and the content blobs of their files *)

\* Snapshots and content blobs are files of one directory, named by their
\* hash.  The content blob of the file that snapshot h adds has the hash
\* NumHashes + h.
Content_hash(h) == NumHashes + h

ContentHashes == {Content_hash(h) : h \in Hashes \ {RootHash}}

\* The values of snapshot.files: the root snapshot has no file; every other
\* snapshot has the file it adds and the files of its ancestors.
Snapshot_files(h) == {Content_hash(a) : a \in Ancestors(h) \ {RootHash}}

\* Content::Delta: the blob is a delta whose original is the blob made just
\* before it; the first blob is Content::Raw.
Content_is_delta(c) == c > Content_hash(RootHash + 1)

Delta_original(c) == c - 1

\* snapshot.signature.key(): here the snapshots have two authors.
Snapshot_signature_key(h) == IF h = RootHash + 2 THEN "k2" ELSE FirstUser

\* fetch_snapshot / fetch_content_object: the file of the hash is read.
Store_has(blobs, hash) == hash \in blobs

\* fetch_string_content: the blob is read and resolved, a delta against its
\* resolved original.
RECURSIVE Store_resolves(_, _)
Store_resolves(blobs, c) ==
    /\ Store_has(blobs, c)
    /\ Content_is_delta(c) => Store_resolves(blobs, Delta_original(c))

\* The client after create_new, between two conversations.
Fetch_new ==
    [dag |-> {RootHash}, blobs |-> {RootHash}, users |-> {FirstUser},
     pc |-> "idle", queue |-> {}, snapshots_to_resolve |-> {}, contents |-> {},
     next |-> 0, reply |-> "none"]

----------------------------------------------------------------------------
(* Spec: the commands, undo and redo on one repository *)

Init ==
    /\ local = Repository_create_new
    /\ remote = Repository_create_new
    /\ obs = Obs_none
    /\ scn = Scn_none
    /\ conv = Conv_idle
    /\ srv = Srv_idle
    /\ net = Net_new
    /\ cwd = Cwd_new
    /\ call = Call_none
    /\ graph = Graph_new
    /\ fetch = Fetch_new

Next ==
    \/ \E name \in BranchNames, basis \in {0} \cup DOMAIN local.history : BranchNew(name, basis)
    \/ \E old \in BranchNames, new \in BranchNames : BranchRename(old, new)
    \/ \E name \in BranchNames : BranchDelete(name)
    \/ \E name \in TagNames, hash \in DOMAIN local.history : TagCreate(name, hash)
    \/ \E name \in TagNames : TagDelete(name)
    \/ \E old \in TagNames, new \in TagNames : TagRename(old, new)
    \/ \E hash \in Hashes : Commit(hash)
    \/ Undo
    \/ Redo

Spec == Init /\ [][Next]_vars

----------------------------------------------------------------------------
(* Sync: login, and the pull conversation between local (client) and       *)
(* remote (server).  The set reconciliation of a branch gives the server   *)
(* the hashes of its chain that the client's chain lacks.                   *)

\* handle_login: what the server answers to a client that presents a project
\* code and then a signature made with the key `key`; `verifies` tells
\* whether the signature is one of the server's secret.  perm is the field
\* the caller's validate_user closure reads.
handle_login(repo, code, key, verifies, perm) ==
    IF repo.project_code # code THEN "mismatch"
    ELSE IF ~verifies THEN "failed to verify signature"
    ELSE IF key \notin DOMAIN repo.users THEN "user does not exist"
    ELSE IF ~repo.users[key][perm] THEN "no permission"
    ELSE "ok"

\* login_as by the current user of the client repository: the client signs
\* the secret it is sent with its own private key.
login_as(client, server, perm) ==
    handle_login(server, client.project_code, client.current_user, TRUE, perm)

\* dfs_get: the chain of start, i.e. the part of the graph reached from it.
dfs_get(g, start) ==
    [n \in Graph_reach(g, {start}, {}) |-> g[n]]

\* handle_pull_as_server, one branch: the patch made of the hashes of the
\* server's chain that the client's chain lacks, with their parents.
Pull_server_diff(server, client_chain, server_tip) ==
    LET branch == dfs_get(server.history, server_tip)
        changes == DOMAIN branch \ DOMAIN client_chain
        orphans == [h \in {c \in changes : branch[c] = {}} |-> {}]
    IN  Graph_insert_all(orphans, {e \in changes \X Hashes : e[2] \in branch[e[1]]})

\* client_pull_one_branch against the branches of the server.
client_pull_one_branch(client, server, name) ==
    LET local_tip == client.branches[name]
    IN  IF name \notin DOMAIN server.branches
        THEN [kind |-> "NotOnRemote"]
        ELSE LET remote_tip == server.branches[name]
                 chain == dfs_get(client.history, local_tip)
                 branch == Graph_extend(chain, Pull_server_diff(server, chain, remote_tip))
                 desc == Graph_is_descendant(branch, remote_tip, local_tip)
             IN  IF local_tip = remote_tip THEN [kind |-> "UpToDate"]
                 ELSE IF desc = "error" THEN [kind |-> "Error"]
                 ELSE [kind |-> IF desc = "true" THEN "FastForward" ELSE "Conflict",
                       graph |-> branch, local_tip |-> local_tip, remote_tip |-> remote_tip]

Local(name) == name \o "-local"

\* handle_pull_as_client, the body of its loop over the branches.
Pull_apply_branch(repo, name, result) ==
    CASE result.kind = "FastForward" ->
            [repo EXCEPT
                !.history = Graph_extend(repo.history, result.graph),
                !.branches = NamedHashes_create(repo.branches, name, result.remote_tip),
                !.action_history = ActionHistory_push(repo.action_history,
                    MoveBranch(name, repo.branches[name], result.remote_tip))]
      [] result.kind = "Conflict" ->
            [repo EXCEPT
                !.history = Graph_extend(repo.history, result.graph),
                !.branches = NamedHashes_create(
                    NamedHashes_create(repo.branches, Local(name), result.local_tip),
                    name, result.remote_tip),
                !.action_history = ActionHistory_push(
                    ActionHistory_push(repo.action_history,
                        MoveBranch(name, result.local_tip, result.remote_tip)),
                    CreateBranch(Local(name), result.local_tip))]
      [] OTHER -> repo

\* handle_pull_as_server: the tags of the server that the client lacks or
\* has at another hash.
Pull_new_tags(server, client_tags) ==
    LET names == {n \in DOMAIN server.tags :
                    ~(n \in DOMAIN client_tags /\ client_tags[n] = server.tags[n])}
    IN  [n \in names |-> server.tags[n]]

\* handle_pull_as_client, the body of its loop over the new tags.
Pull_tag_result(repo, name, server_hash) ==
    IF name \notin DOMAIN repo.tags THEN "New"
    ELSE IF repo.tags[name] # server_hash THEN "Conflict"
    ELSE "Skip"

Pull_apply_tag(repo, name, server_hash) ==
    CASE Pull_tag_result(repo, name, server_hash) = "Conflict" ->
            [repo EXCEPT
                !.tags = NamedHashes_create(
                    NamedHashes_rename(repo.tags, name, Local(name)), name, server_hash),
                !.action_history = ActionHistory_push(
                    ActionHistory_push(repo.action_history,
                        RenameTag(name, Local(name), repo.tags[name])),
                    CreateTag(name, repo.tags[name]))]
      [] Pull_tag_result(repo, name, server_hash) = "New" ->
            [repo EXCEPT
                !.tags = NamedHashes_create(repo.tags, name, server_hash),
                !.action_history = ActionHistory_push(repo.action_history,
                    CreateTag(name, server_hash))]
      [] OTHER -> repo

\* client_fetch_objects: the snapshots of the local DAG that are not stored.
Fetch_queue(repo) == DOMAIN repo.history \ repo.objects

\* server_serve_objects answers a hash with the snapshot when the hash is in
\* its DAG and the snapshot loads.
Serve_ok(server, hash) == hash \in DOMAIN server.history /\ hash \in server.objects

RECURSIVE Repository_save_snapshots(_, _)
Repository_save_snapshots(repo, hashes) ==
    IF hashes = {} THEN repo
    ELSE LET h == CHOOSE x \in hashes : TRUE
         IN  Repository_save_snapshots(Repository_save_snapshot(repo, h), hashes \ {h})

\* What is kept of a conversation that ended, for the one that follows it.
Conv_summary(c) ==
    [kind |-> c.kind, results |-> c.results, tag_results |-> c.tag_results]

Conv_ended(c) ==
    [phase |-> "idle",
     prev |-> [kind |-> c.kind, results |-> c.results, tag_results |-> c.tag_results,
               pre |-> c.pre, before |-> c.before, conflicts |-> c.conflicts]]

Conv_begin(kind, repo) ==
    [phase |-> "branches", kind |-> kind, todo |-> DOMAIN repo.branches,
     results |-> NamedHashes_new, new_tags |-> NamedHashes_new,
     tag_results |-> NamedHashes_new, pre |-> repo, served |-> remote,
     conflicts |-> {},
     before |-> IF conv.prev.kind = "none" THEN NoConv ELSE Conv_summary(conv.prev)]

\* handle_pull_as_client up to its loop: the current user logs in, and the
\* names of the local branches are collected.
PullStart ==
    /\ SyncIdle /\ srv = Srv_idle
    /\ local.action_history.index < MaxSyncHistory
    /\ Repository_current_user_valid(local)
    /\ login_as(local, remote, "can_pull") = "ok"
    /\ conv' = Conv_begin("pull", local)
    /\ obs' = Obs_none /\ scn' = Scn_none
    /\ UNCHANGED <<net, cwd, call, graph, fetch, local, remote, srv>>

\* One turn of the loop over the branch names, which come in the order of
\* the HashMap they were read from.
PullBranch(name) ==
    /\ conv.phase = "branches" /\ conv.kind = "pull" /\ name \in conv.todo
    /\ LET result == client_pull_one_branch(local, remote, name)
       IN  IF result.kind = "Error"
           THEN conv' = Conv_idle /\ local' = local
           ELSE /\ local' = Pull_apply_branch(local, name, result)
                /\ conv' = [conv EXCEPT
                       !.todo = @ \ {name},
                       !.results = (name :> result.kind) @@ @,
                       !.conflicts = IF result.kind = "Conflict"
                                     THEN @ \cup {[name |-> name,
                                                   local_tip |-> result.local_tip,
                                                   remote_tip |-> result.remote_tip]}
                                     ELSE @]
    /\ UNCHANGED <<net, cwd, call, graph, fetch, remote, obs, scn, srv>>

\* After the last branch the client sends its tags and the server answers
\* with its tags that are new to the client.
PullTags ==
    /\ conv.phase = "branches" /\ conv.kind = "pull" /\ conv.todo = {}
    /\ conv' = [conv EXCEPT !.phase = "tags", !.new_tags = Pull_new_tags(remote, local.tags)]
    /\ UNCHANGED <<net, cwd, call, graph, fetch, local, remote, obs, scn, srv>>

\* One turn of the loop over the new tags, in the order of their HashMap.
PullTag(name) ==
    /\ conv.phase = "tags" /\ conv.kind = "pull" /\ name \in DOMAIN conv.new_tags
    /\ local' = Pull_apply_tag(local, name, conv.new_tags[name])
    /\ conv' = [conv EXCEPT
           !.new_tags = [n \in DOMAIN @ \ {name} |-> @[n]],
           !.tag_results = IF Pull_tag_result(local, name, conv.new_tags[name]) = "Skip"
                           THEN @
                           ELSE (name :> Pull_tag_result(local, name, conv.new_tags[name])) @@ @]
    /\ UNCHANGED <<net, cwd, call, graph, fetch, remote, obs, scn, srv>>

\* The end of handle_pull_as_client: the missing snapshots are fetched from
\* the server and saved; a snapshot the server cannot serve ends the pull
\* with an error before anything is saved.
PullObjects ==
    /\ conv.phase = "tags" /\ conv.kind = "pull" /\ DOMAIN conv.new_tags = {}
    /\ IF \A h \in Fetch_queue(local) : Serve_ok(remote, h)
       THEN /\ local' = Repository_save_snapshots(local, Fetch_queue(local))
            /\ conv' = Conv_ended(conv)
       ELSE /\ local' = local
            /\ conv' = Conv_idle
    /\ UNCHANGED <<net, cwd, call, graph, fetch, remote, obs, scn, srv>>

----------------------------------------------------------------------------
(* Sync: the push conversation *)

\* A client that never refuses a branch; C4 fails for it.
client_push_one_branch_never_refuses(client, server, name) ==
    LET local_tip == client.branches[name]
        on_remote == name \in DOMAIN server.branches
    IN  IF on_remote /\ local_tip = server.branches[name] THEN "UpToDate"
        ELSE IF on_remote THEN "CreatedOnRemote" ELSE "FastForward"

\* client_push_one_branch: what the client decides once it knows the tip of
\* the branch on the server, and the label it returns.
client_push_one_branch(client, server, name) ==
    LET local_tip == client.branches[name]
        branch == dfs_get(client.history, local_tip)
        on_remote == name \in DOMAIN server.branches
    IN  IF on_remote /\ local_tip = server.branches[name] THEN "UpToDate"
        ELSE IF on_remote /\ Graph_is_descendant(branch, local_tip, server.branches[name]) = "error"
        THEN "Error"
        ELSE IF on_remote /\ Graph_is_descendant(branch, local_tip, server.branches[name]) = "false"
        THEN "SplitHistory"
        ELSE IF on_remote THEN "CreatedOnRemote" ELSE "FastForward"

\* The hashes the server requests: those of the client's chain that the
\* chain of its own tip lacks.
Push_requested(client, server, name) ==
    LET branch == dfs_get(client.history, client.branches[name])
        own == IF name \in DOMAIN server.branches
               THEN DOMAIN dfs_get(server.history, server.branches[name])
               ELSE {}
    IN  DOMAIN branch \ own

\* A server that saves the objects of a branch and leaves its pointer alone;
\* C10 fails for it.
Push_server_branch_keeps_pointer(server, name, client_tip, objects) ==
    Repository_save_snapshots(server, objects)

\* A server that sets the branch and records the action without saving the
\* objects it received.
Push_server_branch_before_saving(server, name, client_tip, objects) ==
    LET action == IF name \in DOMAIN server.branches
                  THEN MoveBranch(name, server.branches[name], client_tip)
                  ELSE CreateBranch(name, client_tip)
    IN  [server EXCEPT !.branches = NamedHashes_create(server.branches, name, client_tip),
                       !.action_history = ActionHistory_push(server.action_history, action)]

\* handle_push_as_server, the body of its loop for a branch the client did
\* not end with DONE: the objects received are saved, the branch is set to
\* the client's tip and the move is recorded.
Push_server_branch(server, name, client_tip, objects) ==
    LET r1 == Repository_save_snapshots(server, objects)
        action == IF name \in DOMAIN server.branches
                  THEN MoveBranch(name, server.branches[name], client_tip)
                  ELSE CreateBranch(name, client_tip)
    IN  [r1 EXCEPT !.branches = NamedHashes_create(r1.branches, name, client_tip),
                   !.action_history = ActionHistory_push(r1.action_history, action)]

\* handle_push_as_server, its loop over the tags of the client.
Push_tag_results(server, client_tags) ==
    LET names == {n \in DOMAIN client_tags :
                    n \notin DOMAIN server.tags \/ server.tags[n] # client_tags[n]}
    IN  [n \in names |-> IF n \notin DOMAIN server.tags THEN "New" ELSE "Conflict"]

Push_server_tags(server, client_tags) ==
    [server EXCEPT !.tags =
        [n \in DOMAIN server.tags \cup DOMAIN client_tags |->
            IF n \in DOMAIN server.tags THEN server.tags[n] ELSE client_tags[n]]]

\* handle_push_as_client up to its loop over the branches.
PushStart ==
    /\ SyncIdle /\ srv = Srv_idle
    /\ remote.action_history.index < MaxSyncHistory
    /\ Repository_current_user_valid(local)
    /\ login_as(local, remote, "can_push") = "ok"
    /\ conv' = Conv_begin("push", local)
    /\ obs' = Obs_none /\ scn' = Scn_none
    /\ UNCHANGED <<net, cwd, call, graph, fetch, local, remote, srv>>

\* One turn of the loop over the branches, on both sides.  The client reads
\* the requested snapshots from its disk; one that is missing ends the
\* conversation.
PushBranch(name) ==
    /\ conv.phase = "branches" /\ conv.kind = "push" /\ name \in conv.todo
    /\ LET result == client_push_one_branch(local, remote, name)
           requested == Push_requested(local, remote, name)
       IN  IF result = "Error" \/
              (result \in {"CreatedOnRemote", "FastForward"} /\ ~(requested \subseteq local.objects))
           THEN conv' = Conv_idle /\ remote' = remote
           ELSE /\ remote' = IF result \in {"UpToDate", "SplitHistory"}
                             THEN remote
                             ELSE Push_server_branch(remote, name, local.branches[name], requested)
                /\ conv' = [conv EXCEPT !.todo = @ \ {name},
                                        !.results = (name :> result) @@ @]
    /\ UNCHANGED <<net, cwd, call, graph, fetch, local, obs, scn, srv>>

\* The end: the client sends its tags, the server installs the new ones,
\* reports the conflicts and saves the repository.
PushTags ==
    /\ conv.phase = "branches" /\ conv.kind = "push" /\ conv.todo = {}
    /\ remote' = Push_server_tags(remote, local.tags)
    /\ conv' = Conv_ended([conv EXCEPT !.tag_results = Push_tag_results(remote, local.tags)])
    /\ UNCHANGED <<net, cwd, call, graph, fetch, local, obs, scn, srv>>

----------------------------------------------------------------------------
(* SyncSpec: pull and push between two repositories, each with an operator *)
(* who commits and tags.  The remote repository starts as a copy of the    *)
(* local one, as in the set-up of test-push-pull.rs.                       *)

\* A commit made by the operator of the remote repository.
RemoteCommit(hash) ==
    /\ SyncIdle /\ srv = Srv_idle
    /\ Cardinality(DOMAIN remote.history) <= MaxCommits
    /\ hash \in NewSnapshots(remote.current_hash)
    /\ Repository_current_user_valid(remote)
    /\ Repository_save_snapshot_ok(remote, hash)
    /\ LET on == Repository_branch_from_hash(remote, remote.current_hash)
       IN  \E branch_name \in (IF on = {} THEN {{}} ELSE {{n} : n \in on}) :
             LET r1 == Repository_append_snapshot_internal(remote, hash, branch_name)
             IN  /\ Repository_validate_history(r1)
                 /\ remote' = r1
    /\ conv' = Conv_idle
    /\ UNCHANGED <<net, cwd, call, graph, fetch, local, obs, scn, srv>>

\* asc tag create <name> <version> by the operator of the remote repository.
RemoteTagCreate(name, hash) ==
    /\ SyncIdle /\ srv = Srv_idle
    /\ CanRecord(remote)
    /\ LET action == CreateTag(name, hash)
           r1 == [remote EXCEPT !.tags = NamedHashes_create(remote.tags, name, hash)]
           r2 == IF NamedHashes_contains(remote.tags, name) THEN r1 ELSE Record(r1, action)
       IN  /\ Repository_validate_history(r2)
           /\ remote' = r2
    /\ conv' = Conv_idle
    /\ UNCHANGED <<net, cwd, call, graph, fetch, local, obs, scn, srv>>

SyncBranchNames == {"main-local"}
SyncTagNames == {"v1"}

SyncNext ==
    \/ UserPermissions(FirstUser, TRUE, TRUE)
    \/ \E hash \in Hashes : Commit(hash)
    \/ \E hash \in Hashes : RemoteCommit(hash)
    \/ \E name \in SyncBranchNames : BranchNew(name, 0)
    \/ \E name \in SyncTagNames, hash \in DOMAIN local.history : TagCreate(name, hash)
    \/ \E name \in SyncTagNames, hash \in DOMAIN remote.history : RemoteTagCreate(name, hash)
    \/ PullStart
    \/ \E name \in DOMAIN local.branches : PullBranch(name)
    \/ PullTags
    \/ \E name \in DOMAIN remote.tags : PullTag(name)
    \/ PullObjects
    \/ PushStart
    \/ \E name \in DOMAIN local.branches : PushBranch(name)
    \/ PushTags

SyncSpec == Init /\ [][SyncNext]_vars

----------------------------------------------------------------------------
(* CancelSpec: pull and push conversations whose transport can close at    *)
(* any point.  A handler that gets an error from its stream returns it     *)
(* without saving the repository, so what its next run loads is what is on *)
(* disk: the files written by Repository::save before the conversation,    *)
(* and every snapshot written by save_snapshot.                            *)

StreamKinds == {"LocalStream", "SshStream", "StdinStdout"}

\* The error raw_read or raw_write returns once the transport is closed:
\* LocalStream and SshStream map every failure to ConnectionAborted,
\* StdinStdout passes on the error of read_exact or write_all.
Stream_closed_error(stream, op) ==
    IF stream = "StdinStdout"
    THEN IF op = "read" THEN "UnexpectedEof" ELSE "BrokenPipe"
    ELSE "ConnectionAborted"

\* What is on disk when `saved` was written by the last Repository::save
\* and `now` is the repository a handler dropped without saving.
Repository_on_disk(saved, now) == [saved EXCEPT !.objects = now.objects]

Conv_aborted(c, error) ==
    [phase |-> "idle",
     prev |-> [kind |-> "aborted", results |-> c.results, tag_results |-> c.tag_results,
               pre |-> c.pre, before |-> c.before, served |-> c.served, of |-> c.kind,
               error |-> error]]

\* The transport closes during a pull: the next send or receive of
\* handle_pull_as_client fails and the `?` returns the error.
PullAbort(stream, op) ==
    /\ conv.phase \in {"branches", "tags"} /\ conv.kind = "pull"
    /\ local' = Repository_on_disk(conv.pre, local)
    /\ conv' = Conv_aborted(conv, Stream_closed_error(stream, op))
    /\ UNCHANGED <<net, cwd, call, graph, fetch, remote, obs, scn, srv>>

\* The transport closes during a push: the next send or receive of
\* handle_push_as_server fails and the `?` returns the error before
\* repo.save() is reached.
PushAbort(stream, op) ==
    /\ conv.phase = "branches" /\ conv.kind = "push"
    /\ remote' = Repository_on_disk(conv.served, remote)
    /\ conv' = Conv_aborted(conv, Stream_closed_error(stream, op))
    /\ UNCHANGED <<net, cwd, call, graph, fetch, local, obs, scn, srv>>

CancelNext ==
    \/ UserPermissions(FirstUser, TRUE, TRUE)
    \/ \E hash \in Hashes : Commit(hash)
    \/ \E hash \in Hashes : RemoteCommit(hash)
    \/ \E name \in SyncTagNames, hash \in DOMAIN remote.history : RemoteTagCreate(name, hash)
    \/ PullStart
    \/ \E name \in DOMAIN local.branches : PullBranch(name)
    \/ PullTags
    \/ \E name \in DOMAIN remote.tags : PullTag(name)
    \/ PullObjects
    \/ PushStart
    \/ \E name \in DOMAIN local.branches : PushBranch(name)
    \/ PushTags
    \/ \E stream \in StreamKinds, op \in {"read", "write"} : PullAbort(stream, op)
    \/ \E stream \in StreamKinds, op \in {"read", "write"} : PushAbort(stream, op)

CancelSpec == Init /\ [][CancelNext]_vars

----------------------------------------------------------------------------
(* StreamSpec: one direction of a connection.  The writer is a Stream that *)
(* writes to a byte pipe (the standard output of asc-server); the          *)
(* transport cuts the bytes of the pipe into chunks of any size and hands  *)
(* them to the channel an SshStream reads from.                            *)
(*   net.sent       the values sent so far                                 *)
(*   net.pipe       the bytes written and not yet cut into a chunk         *)
(*   net.wire       the chunks in the channel of the reader                *)
(*   net.read_extra the field of the reading SshStream                     *)
(*   net.received   what the calls of receive returned                     *)

HeaderLen == 8
MaxMessages == 2
MaxChunks == 2

\* The values sent: short arrays of small numbers.
Values == {<<1>>, <<2, 3>>}

\* rmp_serde::to_vec of an array of small numbers: the fixarray marker
\* 0x90 + length, then one byte per number.
rmp_to_vec(value) == <<144 + Len(value)>> \o value

\* rmp_serde::from_slice for the same type.
rmp_from_slice(bytes) ==
    IF Len(bytes) >= 1 /\ bytes[1] = 144 + (Len(bytes) - 1)
    THEN [ok |-> TRUE, value |-> Tail(bytes)]
    ELSE [ok |-> FALSE, value |-> bytes]

\* 2^24: more bytes than are ever written here.
TooMany == 16777216

\* usize::to_le_bytes of a length below TooMany: the bytes above the third
\* are zero.
to_le_bytes(n) ==
    [i \in 1..HeaderLen |-> IF i <= 3 THEN (n \div (256 ^ (i - 1))) % 256 ELSE 0]


\* usize::from_le_bytes; a header with a non-zero byte above the third
\* stands for a length of at least TooMany.
from_le_bytes(bytes) ==
    IF \E i \in 4..HeaderLen : bytes[i] # 0
    THEN TooMany
    ELSE bytes[1] + bytes[2] * 256 + bytes[3] * 65536

\* take_n_bytes: the first n bytes are returned, data keeps the rest.
take_n_bytes(data, n) ==
    [taken |-> SubSeq(data, 1, n), data |-> SubSeq(data, n + 1, Len(data))]

\* The loop of SshStream::raw_read: chunks are received until n bytes are
\* there; with no chunk left the call waits.
RECURSIVE SshStream_fill(_, _, _)
SshStream_fill(bytes, wire, n) ==
    IF Len(bytes) >= n THEN [ok |-> TRUE, bytes |-> bytes, wire |-> wire]
    ELSE IF wire = <<>> THEN [ok |-> FALSE, bytes |-> bytes, wire |-> wire]
    ELSE SshStream_fill(bytes \o Head(wire), Tail(wire), n)

\* SshStream::raw_read: what it returns, the read_extra it leaves and the
\* chunks left in the channel.  The last assignment to read_extra replaces
\* what the first take_n_bytes left there.
SshStream_raw_read(read_extra, wire, n) ==
    LET bytes == IF n < Len(read_extra)
                 THEN take_n_bytes(read_extra, n).taken
                 ELSE read_extra
        filled == SshStream_fill(bytes, wire, n)
        split == take_n_bytes(filled.bytes, n)
    IN  IF filled.ok
        THEN [ok |-> TRUE, taken |-> split.taken, read_extra |-> split.data,
              wire |-> filled.wire]
        ELSE [ok |-> FALSE, taken |-> <<>>, read_extra |-> read_extra, wire |-> wire]

\* Stream::read: the header of 8 bytes, then as many bytes as it says.
Stream_read(read_extra, wire) ==
    LET header == SshStream_raw_read(read_extra, wire, HeaderLen)
    IN  IF header.ok
        THEN SshStream_raw_read(header.read_extra, header.wire, from_le_bytes(header.taken))
        ELSE header

\* Stream::send: the value is serialized and written with its header.
StreamSend(value) ==
    /\ Len(net.sent) < MaxMessages
    /\ net' = [net EXCEPT
           !.sent = Append(@, value),
           !.pipe = @ \o to_le_bytes(Len(rmp_to_vec(value))) \o rmp_to_vec(value)]
    /\ UNCHANGED <<local, remote, obs, scn, conv, srv, cwd, call, graph, fetch>>

\* The transport delivers the next k bytes as one chunk.
StreamDeliver(k) ==
    /\ k \in 1..Len(net.pipe)
    /\ Len(net.wire) < MaxChunks
    /\ net' = [net EXCEPT
           !.wire = Append(@, SubSeq(net.pipe, 1, k)),
           !.pipe = SubSeq(@, k + 1, Len(@))]
    /\ UNCHANGED <<local, remote, obs, scn, conv, srv, cwd, call, graph, fetch>>

\* Stream::receive on the SshStream, once the chunks it waits for are there.
StreamReceive ==
    /\ Stream_read(net.read_extra, net.wire).ok
    /\ LET r == Stream_read(net.read_extra, net.wire)
       IN  net' = [net EXCEPT
               !.wire = r.wire,
               !.read_extra = r.read_extra,
               !.received = Append(@, rmp_from_slice(r.taken))]
    /\ UNCHANGED <<local, remote, obs, scn, conv, srv, cwd, call, graph, fetch>>

StreamNext ==
    \/ \E value \in Values : StreamSend(value)
    \/ \E k \in 1..(MaxMessages * (HeaderLen + 3)) : StreamDeliver(k)
    \/ StreamReceive

StreamSpec == Init /\ [][StreamNext]_vars

----------------------------------------------------------------------------
(* CloneSpec: a repository is built on the remote side (commits and tags   *)
(* of its operator, pushes from the local side) and then cloned; the clone *)
(* becomes the local repository.                                           *)

\* The root snapshot and the key pair that create_new makes for the
\* repository the clone client starts from; they differ from everything
\* the server has.
CloneRoot == 0
CloneUser == "k0"
CloneProjectCode == "code-new"

\* Users::without_private_keys
Users_without_private_keys(users) ==
    [k \in DOMAIN users |-> [users[k] EXCEPT !.private_key = FALSE]]

\* handle_clone_as_server: the answer to the signature.
Clone_login(server, key) == key \in DOMAIN server.users

\* handle_clone_as_server: the snapshots of the bundle, walked from the
\* branch tips along the parents fields of the snapshots.
Clone_bundle(server) ==
    UNION {Ancestors(h) : h \in NamedHashes_hashes(server.branches)}

\* The walk fails on a hash that is not in the DAG or does not load.
Clone_bundle_ok(server) ==
    \A h \in Clone_bundle(server) : h \in DOMAIN server.history /\ h \in server.objects

\* The clone when the server sends its users as they are.
Clone_client_given_all_users(server) ==
    LET fresh == [project_code   |-> CloneProjectCode,
                  history        |-> Graph_insert_orphan(Graph_new, CloneRoot),
                  action_history |-> ActionHistory_new,
                  branches       |-> NamedHashes_create(NamedHashes_new, "main", CloneRoot),
                  current_hash   |-> CloneRoot,
                  trash          |-> <<>>,
                  tags           |-> NamedHashes_new,
                  users          |-> [k \in {CloneUser} |-> User_new("axo")],
                  current_user   |-> CloneUser,
                  objects        |-> {CloneRoot}]
        r1 == [fresh EXCEPT !.project_code = server.project_code,
                            !.branches = server.branches,
                            !.tags = server.tags,
                            !.current_hash = server.current_hash,
                            !.users = server.users]
    IN  Repository_save_snapshots(r1, Clone_bundle(server))

\* handle_clone_as_client: a new repository whose fields are replaced by
\* what the server sends, and the snapshots of the bundle saved into it.
Clone_client(server) ==
    LET fresh == [project_code   |-> CloneProjectCode,
                  history        |-> Graph_insert_orphan(Graph_new, CloneRoot),
                  action_history |-> ActionHistory_new,
                  branches       |-> NamedHashes_create(NamedHashes_new, "main", CloneRoot),
                  current_hash   |-> CloneRoot,
                  trash          |-> <<>>,
                  tags           |-> NamedHashes_new,
                  users          |-> [k \in {CloneUser} |-> User_new("axo")],
                  current_user   |-> CloneUser,
                  objects        |-> {CloneRoot}]
        r1 == [fresh EXCEPT !.project_code = server.project_code,
                            !.branches = server.branches,
                            !.tags = server.tags,
                            !.current_hash = server.current_hash,
                            !.users = Users_without_private_keys(server.users)]
    IN  Repository_save_snapshots(r1, Clone_bundle(server))

\* clone by a client that holds the key of the first user.  The clone ends
\* with Repository::save, which fails when the history does not validate.
Clone ==
    /\ SyncIdle /\ srv = Srv_idle
    /\ conv.prev.kind # "clone"
    /\ Clone_login(remote, FirstUser)
    /\ Clone_bundle_ok(remote)
    /\ IF Repository_validate_history(Clone_client(remote))
       THEN /\ local' = Clone_client(remote)
            /\ conv' = [phase |-> "idle",
                        prev |-> [kind |-> "clone", results |-> NamedHashes_new,
                                  tag_results |-> NamedHashes_new, pre |-> local,
                                  before |-> NoConv]]
       ELSE /\ local' = local
            /\ conv' = Conv_idle
    /\ obs' = Obs_none /\ scn' = Scn_none
    /\ UNCHANGED <<net, cwd, call, graph, fetch, remote, srv>>

CloneNext ==
    \/ UserPermissions(FirstUser, TRUE, TRUE)
    \/ \E hash \in Hashes : Commit(hash)
    \/ \E hash \in Hashes : RemoteCommit(hash)
    \/ \E name \in SyncTagNames, hash \in DOMAIN remote.history : RemoteTagCreate(name, hash)
    \/ PushStart
    \/ \E name \in DOMAIN local.branches : PushBranch(name)
    \/ PushTags
    \/ Clone

CloneSpec == Init /\ [][CloneNext]_vars

----------------------------------------------------------------------------
(* UserSpec: the current user of a repository.  The cell current_user      *)
(* holds a key or None; on the served repository the operator closes and   *)
(* reopens the account the cell names, and a clone is a repository whose   *)
(* cell names the user made by create_new, who is not among the users      *)
(* received from the server.                                               *)

\* The case current_user() finds the cell in.
Repository_current_user_case(r) ==
    IF r.current_user = "None" THEN "unset"
    ELSE IF r.current_user \notin DOMAIN r.users THEN "missing"
    ELSE IF r.users[r.current_user].closed THEN "closed"
    ELSE IF ~r.users[r.current_user].private_key THEN "no private key"
    ELSE "valid"

\* Repository::current_user: how the call ends, the user it returns and the
\* cell it leaves.  An unset cell and a missing user return None through
\* `?` and touch nothing.  For a closed user or one without private key the
\* code asks for the write lock of the cell while it still holds the read
\* lock it took first: the std RwLock then blocks for ever or panics,
\* depending on the platform, and the cell is not written.
Repository_current_user(r) ==
    LET case == Repository_current_user_case(r)
    IN  IF case \in {"unset", "missing"}
        THEN {[case |-> case, ends |-> "returned", user |-> "None", cell |-> r.current_user]}
        ELSE IF case \in {"closed", "no private key"}
        THEN {[case |-> case, ends |-> e, user |-> "None", cell |-> r.current_user] :
                 e \in {"deadlock", "panic"}}
        ELSE {[case |-> case, ends |-> "returned", user |-> r.current_user,
               cell |-> r.current_user]}

\* asc user current, on the local or on the served repository.
CurrentUser(side) ==
    /\ SyncIdle /\ srv = Srv_idle
    /\ \E outcome \in Repository_current_user(IF side = "local" THEN local ELSE remote) :
          /\ call' = [op |-> "current_user", side |-> side, case |-> outcome.case,
                      ends |-> outcome.ends, user |-> outcome.user, cell |-> outcome.cell]
          /\ local' = IF side = "local"
                      THEN [local EXCEPT !.current_user = outcome.cell] ELSE local
          /\ remote' = IF side = "remote"
                       THEN [remote EXCEPT !.current_user = outcome.cell] ELSE remote
    /\ conv' = Conv_idle
    /\ UNCHANGED <<net, cwd, obs, scn, srv, graph, fetch>>

UserNext ==
    \/ UserPermissions(FirstUser, TRUE, TRUE)
    \/ UserClose(FirstUser)
    \/ UserReopen(FirstUser)
    \/ \E hash \in Hashes : Commit(hash)
    \/ PushStart
    \/ \E name \in DOMAIN local.branches : PushBranch(name)
    \/ PushTags
    \/ Clone
    \/ \E side \in {"local", "remote"} : CurrentUser(side)

UserSpec == Init /\ [][UserNext]_vars

----------------------------------------------------------------------------
(* CwdSpec: the working directory.  cwd.files gives the content of every   *)
(* path (0: the path does not exist), cwd.staged_files is the field of the *)
(* repository, cwd.head is the files map of the snapshot HEAD is on and    *)
(* cwd.stash maps the id of every stash entry to its files map;           *)
(* cwd.stash_count is the count field of the Stash.                       *)

MaxContent == 2

\* hash_raw_bytes of a content, and the content stored under a hash.
hash_raw_bytes(content) == 10 * content

fetch_string_content(hash) == hash \div 10

MaxStash == 2

\* cwd_differs_from_snapshot: some staged path does not exist, is not in
\* the files map, or has another content hash there.
cwd_differs_from_snapshot(c, files) ==
    \E path \in c.staged_files :
        \/ c.files[path] = 0
        \/ path \notin DOMAIN files
        \/ files[path] # hash_raw_bytes(c.files[path])

\* has_unsaved_changes: the working directory matches neither the current
\* snapshot nor an entry of the stash.
has_unsaved_changes(c) ==
    /\ cwd_differs_from_snapshot(c, c.head)
    /\ \A id \in DOMAIN c.stash : cwd_differs_from_snapshot(c, c.stash[id])

\* replace_cwd_with_files: the paths of the current snapshot that the
\* destination lacks are removed, the paths whose hash differs from the
\* current snapshot's are written, and the staged files become the paths of
\* the destination.
replace_cwd_with_files(c, files) ==
    [c EXCEPT
        !.files = [path \in Paths |->
            IF path \in DOMAIN c.head /\ path \notin DOMAIN files THEN 0
            ELSE IF path \in DOMAIN files
                    /\ ~(path \in DOMAIN c.head /\ c.head[path] = files[path])
                 THEN fetch_string_content(files[path])
                 ELSE c.files[path]],
        !.staged_files = DOMAIN files]

Cwd_done(c, op, result) == [c EXCEPT !.last = [op |-> op, result |-> result]]

\* The user writes or deletes a file of the working directory.
EditFile(path, content) ==
    /\ cwd.files[path] # content
    /\ cwd' = Cwd_done([cwd EXCEPT !.files[path] = content], "edit", "ok")
    /\ UNCHANGED <<local, remote, obs, scn, conv, srv, net, call, graph, fetch>>

\* asc add <path>
Add(path) ==
    /\ cwd.files[path] # 0
    /\ cwd' = Cwd_done([cwd EXCEPT !.staged_files = @ \cup {path}], "add", "ok")
    /\ UNCHANGED <<local, remote, obs, scn, conv, srv, net, call, graph, fetch>>

\* asc update: the staged files become the files of the working directory.
Update ==
    /\ cwd' = Cwd_done([cwd EXCEPT !.staged_files = {path \in Paths : cwd.files[path] # 0}],
                       "update", "ok")
    /\ UNCHANGED <<local, remote, obs, scn, conv, srv, net, call, graph, fetch>>

\* commit_current_state and append_snapshot: the new snapshot holds the
\* hashes of the staged files, which must all be readable, and HEAD moves
\* onto it.
CommitFiles ==
    /\ \A path \in cwd.staged_files : cwd.files[path] # 0
    /\ cwd' = Cwd_done(
           [cwd EXCEPT !.head = [path \in cwd.staged_files |-> hash_raw_bytes(cwd.files[path])]],
           "commit", "ok")
    /\ UNCHANGED <<local, remote, obs, scn, conv, srv, net, call, graph, fetch>>

Cwd_done_id(c, op, result, id) ==
    [c EXCEPT !.last = [op |-> op, result |-> result, id |-> id]]

\* Stash::add_state: the entry gets the id count, and count grows.
Stash_add_state(c, files) ==
    [c EXCEPT !.stash = (c.stash_count :> files) @@ c.stash,
              !.stash_count = @ + 1]

\* Stash::remove_state
Stash_remove_state(c, id) ==
    [c EXCEPT !.stash = [i \in DOMAIN c.stash \ {id} |-> c.stash[i]]]

\* Stash::topmost_id of a stash that is not empty
Stash_topmost_id(c) == CHOOSE i \in DOMAIN c.stash : \A j \in DOMAIN c.stash : j <= i

\* asc stash save: for every staged path the content is saved with the
\* current snapshot as the basis of a delta; save_content_delta begins with
\* fetch_string_content(basis), and the blob of a snapshot does not
\* deserialize as a Content, so with a staged path the command fails.
\* Without one the entry has an empty files map.
StashSave ==
    /\ cwd.stash_count < MaxStash
    /\ cwd' = IF cwd.staged_files # {}
              THEN Cwd_done(cwd, "stash save", "error")
              ELSE Cwd_done_id(Stash_add_state(cwd, [path \in {} |-> 0]),
                               "stash save", "ok", cwd.stash_count)
    /\ UNCHANGED <<local, remote, obs, scn, conv, srv, net, call, graph, fetch>>

\* asc stash delete <id>
StashDelete(id) ==
    /\ cwd' = IF id \in DOMAIN cwd.stash
              THEN Cwd_done_id(Stash_remove_state(cwd, id), "stash delete", "ok", id)
              ELSE Cwd_done_id(cwd, "stash delete", "no stash", id)
    /\ UNCHANGED <<local, remote, obs, scn, conv, srv, net, call, graph, fetch>>

\* The body shared by `asc stash pop` and `asc stash apply`: id is the
\* argument, -1 when it is left out.  The working directory is replaced by
\* the files of the entry unless there are unsaved changes.
Stash_restore(c, op, arg) ==
    IF DOMAIN c.stash = {}
    THEN Cwd_done_id(c, op, "empty", arg)
    ELSE LET id == IF arg = -1 THEN Stash_topmost_id(c) ELSE arg
         IN  IF id \notin DOMAIN c.stash
             THEN Cwd_done_id(c, op, "no stash", id)
             ELSE IF has_unsaved_changes(c)
             THEN Cwd_done_id(c, op, "unsaved changes", id)
             ELSE Cwd_done_id(replace_cwd_with_files(c, c.stash[id]), op, "ok", id)

\* asc stash pop [id]
StashPop(arg) ==
    /\ cwd' = Stash_restore(cwd, "stash pop", arg)
    /\ UNCHANGED <<local, remote, obs, scn, conv, srv, net, call, graph, fetch>>

\* asc stash apply [id]
StashApply(arg) ==
    /\ cwd' = Stash_restore(cwd, "stash apply", arg)
    /\ UNCHANGED <<local, remote, obs, scn, conv, srv, net, call, graph, fetch>>

\* replace_cwd_with_snapshot with the snapshot HEAD is on.
ReplaceCwdWithHead ==
    /\ cwd' = IF has_unsaved_changes(cwd)
              THEN Cwd_done(cwd, "replace_cwd_with_snapshot", "error")
              ELSE Cwd_done(replace_cwd_with_files(cwd, cwd.head),
                            "replace_cwd_with_snapshot", "ok")
    /\ UNCHANGED <<local, remote, obs, scn, conv, srv, net, call, graph, fetch>>

CwdNext ==
    \/ \E path \in Paths, content \in 0..MaxContent : EditFile(path, content)
    \/ \E path \in Paths : Add(path)
    \/ Update
    \/ CommitFiles
    \/ StashSave
    \/ \E id \in 0..(MaxStash - 1) : StashDelete(id)
    \/ \E arg \in -1..(MaxStash - 1) : StashPop(arg)
    \/ \E arg \in -1..(MaxStash - 1) : StashApply(arg)
    \/ ReplaceCwdWithHead

CwdSpec == Init /\ [][CwdNext]_vars

----------------------------------------------------------------------------
(* LoginSpec: the server side of one conversation (handle_server) on the   *)
(* remote repository, with a client that may send anything the protocol    *)
(* lets it send.  srv.pc is the place the handler has reached, srv.login   *)
(* what handle_login answered, srv.steps how many turns of the body (a     *)
(* branch, the tags, an object) the handler has carried out.               *)

ProjectCodes == {ProjectCode, "code-B"}
ClientTags == {NamedHashes_new, NamedHashes_create(NamedHashes_new, "v1", RootHash)}

Srv_step(s, pc) == [s EXCEPT !.pc = pc, !.steps = @ + 1]

\* handle_server: the method is read; pull and push begin with
\* handle_login, clone with sending the secret.
ServerAccept(kind) ==
    /\ SyncIdle /\ srv = Srv_idle
    /\ srv' = [pc |-> IF kind = "clone" THEN "clone" ELSE "code", kind |-> kind,
               login |-> "none", steps |-> 0, sent_repo |-> FALSE, verified |-> FALSE,
               key |-> "none"]
    /\ UNCHANGED <<net, cwd, call, graph, fetch, local, remote, obs, scn, conv>>

\* handle_login, first half: the project code arrives.  On a mismatch the
\* error is sent and handle_login returns what the send returned.
ServerLoginCode(code) ==
    /\ srv.pc = "code"
    /\ srv' = IF remote.project_code # code
              THEN [srv EXCEPT !.pc = "loop", !.login = "mismatch"]
              ELSE [srv EXCEPT !.pc = "signature"]
    /\ UNCHANGED <<net, cwd, call, graph, fetch, local, remote, obs, scn, conv>>

\* handle_login, second half: the signature arrives, the answer is sent and
\* handle_login returns Ok(()).
ServerLoginSignature(key, verifies) ==
    /\ srv.pc = "signature"
    /\ srv' = [srv EXCEPT
           !.pc = "loop",
           !.verified = verifies,
           !.key = key,
           !.login = handle_login(remote, remote.project_code, key, verifies,
                                  IF srv.kind = "pull" THEN "can_pull" ELSE "can_push")]
    /\ UNCHANGED <<net, cwd, call, graph, fetch, local, remote, obs, scn, conv>>

\* handle_pull_as_server, one turn of its loop: the tip of the branch and,
\* when the tips differ, the patch are sent.
ServerPullBranch(name, client_tip) ==
    /\ srv.pc = "loop" /\ srv.kind = "pull" /\ srv.steps < MaxSteps
    /\ srv' = Srv_step(srv, "loop")
    /\ UNCHANGED <<net, cwd, call, graph, fetch, local, remote, obs, scn, conv>>

\* handle_push_as_server, one turn of its loop for a client that goes on
\* with PENDING and sends the snapshots of its tip that the server lacks.
ServerPushBranch(name, client_tip) ==
    /\ srv.pc = "loop" /\ srv.kind = "push" /\ srv.steps < MaxSteps
    /\ remote.action_history.index < MaxSyncHistory
    /\ LET own == IF name \in DOMAIN remote.branches
                  THEN DOMAIN dfs_get(remote.history, remote.branches[name])
                  ELSE {}
       IN  remote' = Push_server_branch(remote, name, client_tip, Ancestors(client_tip) \ own)
    /\ srv' = Srv_step(srv, "loop")
    /\ UNCHANGED <<net, cwd, call, graph, fetch, local, obs, scn, conv>>

\* The client ends the loop with DONE and sends its tags.
ServerPullTags(client_tags) ==
    /\ srv.pc = "loop" /\ srv.kind = "pull"
    /\ srv' = Srv_step(srv, "objects")
    /\ UNCHANGED <<net, cwd, call, graph, fetch, local, remote, obs, scn, conv>>

ServerPushTags(client_tags) ==
    /\ srv.pc = "loop" /\ srv.kind = "push"
    /\ remote' = Push_server_tags(remote, client_tags)
    /\ srv' = Srv_step(srv, "done")
    /\ UNCHANGED <<net, cwd, call, graph, fetch, local, obs, scn, conv>>

\* server_serve_objects, one turn: a snapshot of the DAG is sent; a hash
\* that cannot be served ends the handler.
ServerServeObject(hash) ==
    /\ srv.pc = "objects" /\ srv.steps < MaxSteps + 1
    /\ srv' = IF Serve_ok(remote, hash) THEN Srv_step(srv, "objects")
              ELSE [srv EXCEPT !.pc = "done"]
    /\ UNCHANGED <<net, cwd, call, graph, fetch, local, remote, obs, scn, conv>>

\* handle_clone_as_server: the signature arrives; when its key is that of a
\* user the whole repository is sent.
ServerCloneSignature(key, verifies) ==
    /\ srv.pc = "clone"
    /\ srv' = [srv EXCEPT !.pc = "done", !.verified = verifies, !.key = key,
                          !.sent_repo = key \in DOMAIN remote.users]
    /\ UNCHANGED <<net, cwd, call, graph, fetch, local, remote, obs, scn, conv>>

\* The stream ends (the client sends DONE or hangs up): the handler returns.
ServerClose ==
    /\ srv.pc # "idle"
    /\ srv' = Srv_idle
    /\ UNCHANGED <<net, cwd, call, graph, fetch, local, remote, obs, scn, conv>>

LoginNext ==
    \/ \E push \in BOOLEAN, pull \in BOOLEAN : UserPermissions(FirstUser, push, pull)
    \/ UserClose(FirstUser)
    \/ UserReopen(FirstUser)
    \/ \E kind \in {"pull", "push", "clone"} : ServerAccept(kind)
    \/ \E code \in ProjectCodes : ServerLoginCode(code)
    \/ \E key \in Keys, verifies \in BOOLEAN : ServerLoginSignature(key, verifies)
    \/ \E name \in {"main"}, client_tip \in Hashes : ServerPullBranch(name, client_tip)
    \/ \E name \in {"main"}, client_tip \in Hashes : ServerPushBranch(name, client_tip)
    \/ \E client_tags \in ClientTags : ServerPullTags(client_tags)
    \/ \E client_tags \in ClientTags : ServerPushTags(client_tags)
    \/ \E hash \in Hashes : ServerServeObject(hash)
    \/ \E key \in Keys, verifies \in BOOLEAN : ServerCloneSignature(key, verifies)
    \/ ServerClose

LoginSpec == Init /\ [][LoginNext]_vars

----------------------------------------------------------------------------
(* TrashSpec: the trash of the local repository.  asc trash add and asc    *)
(* trash recover change the trash field directly; trash_contains is the    *)
(* query both of them, and asc clean, make.                                *)

\* trash_contains with the arguments of is_descendant exchanged.
Repository_trash_contains_of_ancestors(r, hash) ==
    IF Trash_contains(r.trash, hash)
    THEN [status |-> "Direct", hash |-> hash]
    ELSE LET hits == {i \in 1..Len(r.trash) :
                         Graph_is_descendant(r.history, r.trash[i], hash) # "false"}
         IN  IF hits = {}
             THEN [status |-> "None", hash |-> hash]
             ELSE LET i == CHOOSE j \in hits : \A k \in hits : j <= k
                  IN  IF Graph_is_descendant(r.history, r.trash[i], hash) = "error"
                      THEN [status |-> "panic", hash |-> hash]
                      ELSE [status |-> "Indirect", hash |-> r.trash[i]]

\* Repository::trash_contains: Direct when the hash is an entry; else the
\* entries are tried in the order of the list, and the first one the hash
\* is a descendant of gives Indirect(entry); is_descendant is unwrapped, so
\* an Err of it (a visited hash without an entry in the graph) is a panic.
Repository_trash_contains(r, hash) ==
    IF Trash_contains(r.trash, hash)
    THEN [status |-> "Direct", hash |-> hash]
    ELSE LET hits == {i \in 1..Len(r.trash) :
                         Graph_is_descendant(r.history, hash, r.trash[i]) # "false"}
         IN  IF hits = {}
             THEN [status |-> "None", hash |-> hash]
             ELSE LET i == CHOOSE j \in hits : \A k \in hits : j <= k
                  IN  IF Graph_is_descendant(r.history, hash, r.trash[i]) = "error"
                      THEN [status |-> "panic", hash |-> hash]
                      ELSE [status |-> "Indirect", hash |-> r.trash[i]]

\* asc trash add <version>: refused for the root snapshot, for a snapshot
\* that is in the trash already and when a tag points into what would be
\* trashed.  When HEAD is a descendant of the trashed snapshot it moves to a
\* parent of that snapshot, unless there are unsaved changes (then the
\* command fails before it saves).  No action is recorded.
TrashAddCmd(hash, unsaved) ==
    /\ SyncIdle
    /\ hash \in DOMAIN local.history
    /\ hash # RootHash
    /\ Repository_trash_contains(local, hash).status = "None"
    /\ \A name \in DOMAIN local.tags :
           Graph_is_descendant(local.history, local.tags[name], hash) # "true"
    /\ LET r1 == [local EXCEPT !.trash = Trash_add(@, hash)]
           head_in == Graph_is_descendant(local.history, local.current_hash, hash) = "true"
       IN  IF head_in
           THEN /\ ~unsaved
                /\ \E new_hash \in local.history[hash] :
                       local' = [r1 EXCEPT !.current_hash = new_hash]
           ELSE local' = r1
    /\ obs' = Obs_none
    /\ conv' = Conv_idle
    /\ UNCHANGED <<net, cwd, call, graph, fetch, remote, srv, scn>>

\* asc trash recover <version>: only an entry of the list is taken out.
TrashRecoverCmd(hash) ==
    /\ SyncIdle
    /\ hash \in DOMAIN local.history
    /\ Repository_trash_contains(local, hash).status = "Direct"
    /\ local' = [local EXCEPT !.trash = Trash_remove(@, hash)]
    /\ obs' = Obs_none
    /\ conv' = Conv_idle
    /\ UNCHANGED <<net, cwd, call, graph, fetch, remote, srv, scn>>

TrashNext ==
    \/ \E hash \in Hashes : Commit(hash)
    \/ \E name \in TagNames, hash \in DOMAIN local.history : TagCreate(name, hash)
    \/ \E hash \in Hashes, unsaved \in BOOLEAN : TrashAddCmd(hash, unsaved)
    \/ \E hash \in Hashes : TrashRecoverCmd(hash)

TrashSpec == Init /\ [][TrashNext]_vars

----------------------------------------------------------------------------
(* GraphSpec: one Graph value, starting empty, under any sequence of the   *)
(* operations that change it, with hashes drawn from GraphNodes.           *)

MaxNodes == 3

GraphNodes == 1..MaxNodes

\* Graph::remove: the entry is taken out, and the hash is taken out of every
\* parent set.
Graph_remove(g, hash) ==
    [h \in DOMAIN g \ {hash} |-> g[h] \ {hash}]

\* Graph::upsert: the entry is taken out and put back with the new parents.
Graph_upsert(g, hash, new_parents) ==
    [h \in DOMAIN g \cup {hash} |-> IF h = hash THEN new_parents ELSE g[h]]

\* The graphs handed to extend: a single node, or a single edge.
OtherGraphs ==
    {Graph_insert_orphan(Graph_new, a) : a \in GraphNodes}
        \cup {Graph_insert(Graph_new, a, b) : a \in GraphNodes, b \in GraphNodes}

GraphInsert(hash, parent) ==
    /\ graph' = Graph_insert(graph, hash, parent)
    /\ UNCHANGED <<local, remote, obs, scn, conv, srv, net, cwd, call, fetch>>

GraphInsertOrphan(hash) ==
    /\ graph' = Graph_insert_orphan(graph, hash)
    /\ UNCHANGED <<local, remote, obs, scn, conv, srv, net, cwd, call, fetch>>

GraphRemove(hash) ==
    /\ graph' = Graph_remove(graph, hash)
    /\ UNCHANGED <<local, remote, obs, scn, conv, srv, net, cwd, call, fetch>>

GraphUpsert(hash, new_parents) ==
    /\ graph' = Graph_upsert(graph, hash, new_parents)
    /\ UNCHANGED <<local, remote, obs, scn, conv, srv, net, cwd, call, fetch>>

GraphExtend(other) ==
    /\ graph' = Graph_extend(graph, other)
    /\ UNCHANGED <<local, remote, obs, scn, conv, srv, net, cwd, call, fetch>>

GraphNext ==
    \/ \E hash \in GraphNodes, parent \in GraphNodes : GraphInsert(hash, parent)
    \/ \E hash \in GraphNodes : GraphInsertOrphan(hash)
    \/ \E hash \in GraphNodes : GraphRemove(hash)
    \/ \E hash \in GraphNodes, new_parents \in SUBSET GraphNodes : GraphUpsert(hash, new_parents)
    \/ \E other \in OtherGraphs : GraphExtend(other)

GraphSpec == Init /\ [][GraphNext]_vars

----------------------------------------------------------------------------
(* TermSpec: one conversation at a time between the client handler         *)
(* (handle_pull_as_client, handle_push_as_client, handle_clone_as_client)  *)
(* and the server handler, each a process that runs until its next         *)
(* receive.  The stream is reliable and stays open: conv.c2s and conv.s2c  *)
(* are the messages sent and not yet received in each direction.  conv.pc  *)
(* and srv.pc are the places the two handlers have reached; "done" is a    *)
(* handler that returned Ok, "failed" one that returned an error.          *)
(* srv.disk is what the last Repository::save of the server wrote.         *)

Msg(t, v) == [t |-> t, v |-> v]

\* Option<ObjectHash>::None
NoTip == -1

Talking == conv.phase = "talk"

ClientAt(pc) == Talking /\ conv.pc = pc

\* The client is at pc and the message it waits for has arrived.
ClientGets(pc) == ClientAt(pc) /\ conv.s2c # <<>>

\* The server is at pc and the message it waits for has arrived.
ServerGets(pc) == Talking /\ srv.pc = pc /\ conv.c2s # <<>>

Conv_received(c) == [c EXCEPT !.s2c = Tail(@)]

Conv_taken(c) == [c EXCEPT !.c2s = Tail(@)]

Conv_next_branch(c, result) ==
    [c EXCEPT !.pc = "loop", !.todo = @ \ {c.cur}, !.results = (c.cur :> result) @@ @]

\* What the push client knows of the server when it decides about a branch:
\* the tip it was sent.
Server_known(name, tip) ==
    [branches |-> IF tip = NoTip THEN NamedHashes_new
                  ELSE NamedHashes_create(NamedHashes_new, name, tip)]

\* The loop of handle_pull_as_client over the new tags.
RECURSIVE Pull_apply_tags(_, _)
Pull_apply_tags(repo, new_tags) ==
    IF DOMAIN new_tags = {} THEN repo
    ELSE LET n == CHOOSE x \in DOMAIN new_tags : TRUE
         IN  Pull_apply_tags(Pull_apply_tag(repo, n, new_tags[n]),
                             [m \in DOMAIN new_tags \ {n} |-> new_tags[m]])

\* The two handlers are started on the two ends of a stream.  A pull or a
\* push client begins by sending its project code; a clone server begins by
\* sending its secret.
TermStart(kind, key) ==
    /\ SyncIdle /\ srv = Srv_idle
    /\ local.action_history.index < MaxSyncHistory
    /\ remote.action_history.index < MaxSyncHistory
    /\ kind \in {"pull", "push"} => (Repository_current_user_valid(local) /\ key = local.current_user)
    /\ conv' = [phase |-> "talk", kind |-> kind, key |-> key,
                pc |-> IF kind = "clone" THEN "clone_secret" ELSE "secret",
                todo |-> {}, cur |-> "", results |-> NamedHashes_new,
                queue |-> {}, fetched |-> {}, want |-> 0, tip |-> NoTip,
                c2s |-> IF kind = "clone" THEN <<>> ELSE <<Msg("code", local.project_code)>>,
                s2c |-> IF kind = "clone" THEN <<Msg("secret", TRUE)>> ELSE <<>>,
                prev |-> NoConv]
    /\ srv' = [pc |-> IF kind = "clone" THEN "clone_sig" ELSE "code", kind |-> kind,
               cur |-> "", tip |-> NoTip, disk |-> remote, moved |-> {}]
    /\ obs' = Obs_none /\ scn' = Scn_none
    /\ UNCHANGED <<net, cwd, call, graph, fetch, local, remote>>

\* login_as: Err(()) in place of the secret makes the client bail; else it
\* signs the secret and sends the signature.
ClientSecret ==
    /\ ClientGets("secret")
    /\ conv' = IF Head(conv.s2c).v
               THEN [Conv_received(conv) EXCEPT !.c2s = Append(@, Msg("sig", conv.key)),
                                                !.pc = "login"]
               ELSE [Conv_received(conv) EXCEPT !.pc = "failed"]
    /\ UNCHANGED <<net, cwd, call, graph, fetch, local, remote, obs, scn, srv>>

\* login_as: the answer to the signature; after Ok the handler collects the
\* names of its branches.
ClientLogin ==
    /\ ClientGets("login")
    /\ conv' = IF Head(conv.s2c).v = "ok"
               THEN [Conv_received(conv) EXCEPT !.pc = "loop", !.todo = DOMAIN local.branches]
               ELSE [Conv_received(conv) EXCEPT !.pc = "failed"]
    /\ UNCHANGED <<net, cwd, call, graph, fetch, local, remote, obs, scn, srv>>

\* One turn of the loop of the client begins: PENDING, then the name of the
\* branch and its tip.
ClientBranch(name) ==
    /\ ClientAt("loop") /\ name \in conv.todo
    /\ conv' = [conv EXCEPT !.c2s = Append(@, Msg("branch", <<name, local.branches[name]>>)),
                            !.pc = "tip", !.cur = name]
    /\ UNCHANGED <<net, cwd, call, graph, fetch, local, remote, obs, scn, srv>>

\* client_pull_one_branch / client_push_one_branch once the tip of the
\* server has arrived.
ClientTip ==
    /\ ClientGets("tip")
    /\ LET tip == Head(conv.s2c).v
           local_tip == local.branches[conv.cur]
           chain == dfs_get(local.history, local_tip)
           c1 == [Conv_received(conv) EXCEPT !.tip = tip]
           push == client_push_one_branch(local, Server_known(conv.cur, tip), conv.cur)
       IN  conv' =
             IF conv.kind = "pull"
             THEN IF tip = NoTip THEN Conv_next_branch(c1, "NotOnRemote")
                  ELSE IF tip = local_tip THEN Conv_next_branch(c1, "UpToDate")
                  ELSE [c1 EXCEPT !.c2s = Append(@, Msg("symbols", chain)), !.pc = "diff"]
             ELSE IF push = "Error" THEN [c1 EXCEPT !.pc = "failed"]
                  ELSE IF push \in {"UpToDate", "SplitHistory"}
                  THEN Conv_next_branch([c1 EXCEPT !.c2s = Append(@, Msg("state", "DONE"))], push)
                  ELSE [c1 EXCEPT !.c2s = Append(Append(@, Msg("state", "PENDING")),
                                                Msg("symbols", chain)),
                                  !.pc = "requested"]
    /\ UNCHANGED <<net, cwd, call, graph, fetch, local, remote, obs, scn, srv>>

\* client_pull_one_branch after Done((diff, remote_tip)), and the body of
\* the loop of handle_pull_as_client for its result.
ClientDiff ==
    /\ ClientGets("diff") /\ conv.kind = "pull"
    /\ LET result == client_pull_one_branch(local, remote, conv.cur)
       IN  IF result.kind = "Error"
           THEN /\ conv' = [Conv_received(conv) EXCEPT !.pc = "failed"]
                /\ local' = local
           ELSE /\ conv' = Conv_next_branch(Conv_received(conv), result.kind)
                /\ local' = Pull_apply_branch(local, conv.cur, result)
    /\ UNCHANGED <<net, cwd, call, graph, fetch, remote, obs, scn, srv>>

\* client_push_one_branch after the list of requested hashes: the objects
\* are read and sent, and the result of the branch is returned.
ClientRequested ==
    /\ ClientGets("requested") /\ conv.kind = "push"
    /\ LET requested == Head(conv.s2c).v
           c1 == Conv_received(conv)
       IN  conv' = IF requested \subseteq local.objects
                   THEN Conv_next_branch(
                            [c1 EXCEPT !.c2s = Append(@, Msg("objects", requested))],
                            client_push_one_branch(local, Server_known(conv.cur, conv.tip), conv.cur))
                   ELSE [c1 EXCEPT !.pc = "failed"]
    /\ UNCHANGED <<net, cwd, call, graph, fetch, local, remote, obs, scn, srv>>

\* After the last branch: DONE, then the tags of the client.
ClientSendTags ==
    /\ ClientAt("loop") /\ conv.todo = {}
    /\ conv' = [conv EXCEPT !.c2s = Append(@, Msg("tags", local.tags)), !.pc = "tags"]
    /\ UNCHANGED <<net, cwd, call, graph, fetch, local, remote, obs, scn, srv>>

\* The answer to the tags.  A push client returns its results; a pull
\* client installs the new tags and begins client_fetch_objects.
ClientTagResults ==
    /\ ClientGets("tags")
    /\ IF conv.kind = "push"
       THEN /\ conv' = [Conv_received(conv) EXCEPT !.pc = "done"]
            /\ local' = local
       ELSE LET r1 == Pull_apply_tags(local, Head(conv.s2c).v)
            IN  /\ local' = r1
                /\ conv' = [Conv_received(conv) EXCEPT !.pc = "fetch", !.queue = Fetch_queue(r1)]
    /\ UNCHANGED <<net, cwd, call, graph, fetch, remote, obs, scn, srv>>

\* client_fetch_objects, one turn: PENDING and the next hash of the queue.
ClientFetch(hash) ==
    /\ ClientAt("fetch") /\ hash \in conv.queue
    /\ conv' = [conv EXCEPT !.c2s = Append(@, Msg("want", hash)), !.pc = "object",
                            !.want = hash]
    /\ UNCHANGED <<net, cwd, call, graph, fetch, local, remote, obs, scn, srv>>

\* client_fetch_objects, the answer to a hash.
ClientObject ==
    /\ ClientGets("object")
    /\ conv' = IF Head(conv.s2c).v
               THEN [Conv_received(conv) EXCEPT !.pc = "fetch", !.queue = @ \ {conv.want},
                                                !.fetched = @ \cup {conv.want}]
               ELSE [Conv_received(conv) EXCEPT !.pc = "failed"]
    /\ UNCHANGED <<net, cwd, call, graph, fetch, local, remote, obs, scn, srv>>

\* client_fetch_objects with an empty queue sends DONE; the handler then
\* saves what it fetched and returns.
ClientFetchEnd ==
    /\ ClientAt("fetch") /\ conv.queue = {}
    /\ local' = Repository_save_snapshots(local, conv.fetched)
    /\ conv' = [conv EXCEPT !.c2s = Append(@, Msg("state", "DONE")),
                            !.pc = IF \A h \in conv.fetched : Repository_save_snapshot_ok(local, h)
                                   THEN "done" ELSE "failed"]
    /\ UNCHANGED <<net, cwd, call, graph, fetch, remote, obs, scn, srv>>

\* handle_login, the project code: on a mismatch Err(()) is sent and the
\* result of that send, Ok, is what handle_login returns.
ServerCode ==
    /\ ServerGets("code")
    /\ LET ok == Head(conv.c2s).v = remote.project_code
       IN  /\ conv' = [Conv_taken(conv) EXCEPT !.s2c = Append(@, Msg("secret", ok))]
           /\ srv' = [srv EXCEPT !.pc = IF ok THEN "sig" ELSE "loop"]
    /\ UNCHANGED <<net, cwd, call, graph, fetch, local, remote, obs, scn>>

\* handle_login, the signature: the result is sent, and Ok(()) is returned
\* whatever the result was.
ServerSig ==
    /\ ServerGets("sig")
    /\ LET perm == IF srv.kind = "pull" THEN "can_pull" ELSE "can_push"
           result == handle_login(remote, remote.project_code, Head(conv.c2s).v, TRUE, perm)
       IN  conv' = [Conv_taken(conv) EXCEPT !.s2c = Append(@, Msg("login", result))]
    /\ srv' = [srv EXCEPT !.pc = "loop"]
    /\ UNCHANGED <<net, cwd, call, graph, fetch, local, remote, obs, scn>>

\* The loop of the server, a branch: the tip of the server is sent.
ServerBranch ==
    /\ ServerGets("loop") /\ Head(conv.c2s).t = "branch"
    /\ LET name == Head(conv.c2s).v[1]
           client_tip == Head(conv.c2s).v[2]
           tip == IF name \in DOMAIN remote.branches THEN remote.branches[name] ELSE NoTip
       IN  /\ conv' = [Conv_taken(conv) EXCEPT !.s2c = Append(@, Msg("tip", tip))]
           /\ srv' = [srv EXCEPT !.cur = name, !.tip = client_tip,
                                 !.pc = IF srv.kind = "push" THEN "state"
                                        ELSE IF tip = NoTip \/ tip = client_tip THEN "loop"
                                        ELSE "symbols"]
    /\ UNCHANGED <<net, cwd, call, graph, fetch, local, remote, obs, scn>>

\* handle_push_as_server: DONE ends the turn, PENDING begins the decoding.
ServerState ==
    /\ ServerGets("state")
    /\ srv' = [srv EXCEPT !.pc = IF Head(conv.c2s).v = "DONE" THEN "loop" ELSE "symbols"]
    /\ conv' = Conv_taken(conv)
    /\ UNCHANGED <<net, cwd, call, graph, fetch, local, remote, obs, scn>>

\* The decoder has the hashes of the client's chain.  A pull server sends
\* the patch, a push server the hashes it lacks.
ServerSymbols ==
    /\ ServerGets("symbols")
    /\ LET chain == Head(conv.c2s).v
           own == IF srv.cur \in DOMAIN remote.branches
                  THEN DOMAIN dfs_get(remote.history, remote.branches[srv.cur])
                  ELSE {}
       IN  IF srv.kind = "pull"
           THEN /\ conv' = [Conv_taken(conv) EXCEPT !.s2c = Append(@,
                               Msg("diff", Pull_server_diff(remote, chain, remote.branches[srv.cur])))]
                /\ srv' = [srv EXCEPT !.pc = "loop"]
           ELSE /\ conv' = [Conv_taken(conv) EXCEPT !.s2c = Append(@,
                               Msg("requested", DOMAIN chain \ own))]
                /\ srv' = [srv EXCEPT !.pc = "objects"]
    /\ UNCHANGED <<net, cwd, call, graph, fetch, local, remote, obs, scn>>

\* handle_push_as_server: the objects are saved one by one; then the branch
\* is set to the tip of the client and the action is recorded.  stored are
\* the objects written before a save_snapshot fails (an unknown author, or
\* the file system refusing the write); a failure ends the handler before
\* the branch is set, and what it leaves is what is on disk.
ServerObjects(stored) ==
    /\ ServerGets("objects")
    /\ LET objects == Head(conv.c2s).v
       IN  /\ stored \subseteq objects
           /\ IF stored = objects /\ \A h \in objects : Repository_save_snapshot_ok(remote, h)
              THEN /\ remote' = Push_server_branch(remote, srv.cur, srv.tip, objects)
                   /\ srv' = [srv EXCEPT !.pc = "loop", !.moved = @ \cup {srv.cur}]
              ELSE /\ remote' = Repository_on_disk(srv.disk,
                                     Repository_save_snapshots(remote, stored))
                   /\ srv' = [srv EXCEPT !.pc = "failed"]
    /\ conv' = Conv_taken(conv)
    /\ UNCHANGED <<net, cwd, call, graph, fetch, local, obs, scn>>

\* The loop of the server ends with DONE and the tags of the client.  A
\* pull server answers with its new tags; a push server installs the tags
\* it lacks and answers with the results.
ServerTags ==
    /\ ServerGets("loop") /\ Head(conv.c2s).t = "tags"
    /\ LET client_tags == Head(conv.c2s).v
       IN  IF srv.kind = "pull"
           THEN /\ conv' = [Conv_taken(conv) EXCEPT !.s2c = Append(@,
                               Msg("tags", Pull_new_tags(remote, client_tags)))]
                /\ srv' = [srv EXCEPT !.pc = "serve"]
                /\ remote' = remote
           ELSE /\ conv' = [Conv_taken(conv) EXCEPT !.s2c = Append(@,
                               Msg("tags", Push_tag_results(remote, client_tags)))]
                /\ srv' = [srv EXCEPT !.pc = "save"]
                /\ remote' = Push_server_tags(remote, client_tags)
    /\ UNCHANGED <<net, cwd, call, graph, fetch, local, obs, scn>>

\* The end of handle_push_as_server: Repository::save, which refuses a
\* history that does not validate.
ServerSave ==
    /\ Talking /\ srv.pc = "save"
    /\ IF Repository_validate_history(remote)
       THEN /\ srv' = [srv EXCEPT !.pc = "done", !.disk = remote]
            /\ remote' = remote
       ELSE /\ srv' = [srv EXCEPT !.pc = "failed"]
            /\ remote' = Repository_on_disk(srv.disk, remote)
    /\ UNCHANGED <<net, cwd, call, graph, fetch, local, obs, scn, conv>>

\* server_serve_objects: DONE ends it; a hash is answered with the object,
\* or with an error that also ends the handler.
ServerServe ==
    /\ ServerGets("serve")
    /\ LET m == Head(conv.c2s)
       IN  IF m.t = "state"
           THEN /\ conv' = Conv_taken(conv)
                /\ srv' = [srv EXCEPT !.pc = "done"]
           ELSE /\ conv' = [Conv_taken(conv) EXCEPT !.s2c = Append(@,
                               Msg("object", Serve_ok(remote, m.v)))]
                /\ srv' = [srv EXCEPT !.pc = IF Serve_ok(remote, m.v) THEN "serve" ELSE "failed"]
    /\ UNCHANGED <<net, cwd, call, graph, fetch, local, remote, obs, scn>>

\* handle_clone_as_client: the secret is signed.
ClientCloneSecret ==
    /\ ClientGets("clone_secret")
    /\ conv' = [Conv_received(conv) EXCEPT !.c2s = Append(@, Msg("sig", conv.key)),
                                           !.pc = "clone_result"]
    /\ UNCHANGED <<net, cwd, call, graph, fetch, local, remote, obs, scn, srv>>

\* handle_clone_as_server: a signature of a user is answered with Ok and
\* the repository; any other with an error, after which the server returns.
ServerCloneSig ==
    /\ ServerGets("clone_sig")
    /\ LET ok == Clone_login(remote, Head(conv.c2s).v)
           c1 == [Conv_taken(conv) EXCEPT !.s2c = Append(@, Msg("result", ok))]
       IN  /\ conv' = IF ok /\ Clone_bundle_ok(remote)
                      THEN [c1 EXCEPT !.s2c = Append(@, Msg("repo", TRUE))]
                      ELSE c1
           /\ srv' = [srv EXCEPT !.pc = IF ok /\ ~Clone_bundle_ok(remote)
                                        THEN "failed" ELSE "done"]
    /\ UNCHANGED <<net, cwd, call, graph, fetch, local, remote, obs, scn>>

\* handle_clone_as_client: the answer to the signature.
ClientCloneResult ==
    /\ ClientGets("clone_result")
    /\ conv' = [Conv_received(conv) EXCEPT !.pc = IF Head(conv.s2c).v THEN "clone_repo"
                                                  ELSE "failed"]
    /\ UNCHANGED <<net, cwd, call, graph, fetch, local, remote, obs, scn, srv>>

\* handle_clone_as_client: the repository is built from what was received
\* and saved.
ClientCloneRepo ==
    /\ ClientGets("clone_repo")
    /\ IF Repository_validate_history(Clone_client(remote))
       THEN /\ local' = Clone_client(remote)
            /\ conv' = [Conv_received(conv) EXCEPT !.pc = "done"]
       ELSE /\ local' = local
            /\ conv' = [Conv_received(conv) EXCEPT !.pc = "failed"]
    /\ UNCHANGED <<net, cwd, call, graph, fetch, remote, obs, scn, srv>>

ClientEnded == Talking /\ conv.pc \in {"done", "failed"}

ServerEnded == Talking /\ srv.pc \in {"done", "failed"}

\* Both handlers have returned: the stream is dropped.
TermEnd ==
    /\ ClientEnded /\ ServerEnded
    /\ conv' = Conv_idle
    /\ srv' = Srv_idle
    /\ UNCHANGED <<net, cwd, call, graph, fetch, local, remote, obs, scn>>

TermNext ==
    \/ \E push \in BOOLEAN, pull \in BOOLEAN : UserPermissions(FirstUser, push, pull)
    \/ \E hash \in Hashes : Commit(hash)
    \/ \E hash \in Hashes : RemoteCommit(hash)
    \/ \E kind \in {"pull", "push", "clone"}, key \in {FirstUser, CloneUser} : TermStart(kind, key)
    \/ ClientSecret
    \/ ClientLogin
    \/ \E name \in DOMAIN local.branches : ClientBranch(name)
    \/ ClientTip
    \/ ClientDiff
    \/ ClientRequested
    \/ ClientSendTags
    \/ ClientTagResults
    \/ \E hash \in Hashes : ClientFetch(hash)
    \/ ClientObject
    \/ ClientFetchEnd
    \/ ServerCode
    \/ ServerSig
    \/ ServerBranch
    \/ ServerState
    \/ ServerSymbols
    \/ \E stored \in SUBSET Hashes : ServerObjects(stored)
    \/ ServerTags
    \/ ServerSave
    \/ ServerServe
    \/ ClientCloneSecret
    \/ ServerCloneSig
    \/ ClientCloneResult
    \/ ClientCloneRepo
    \/ TermEnd

\* Every handler is a task that runs whenever it is not waiting for a
\* message.
TermSpec == Init /\ [][TermNext]_vars /\ WF_vars(TermNext)

----------------------------------------------------------------------------
(* FetchSpec: the object fetch phase of a pull, with the content blobs *)

\* The server stores every snapshot and every content blob.
Fetch_server_history == Hashes

Fetch_server_blobs == Hashes \cup ContentHashes

\* handle_pull_as_client, the result of a branch: the part of the server's
\* DAG that leads to its tip is added to the DAG of the client.
FetchExtendHistory(tip) ==
    /\ fetch.pc = "idle" /\ tip \in Fetch_server_history \ fetch.dag
    /\ fetch' = [fetch EXCEPT !.dag = @ \cup Ancestors(tip)]
    /\ UNCHANGED <<local, remote, obs, scn, conv, srv, net, cwd, call, graph>>

\* Users::add_user on the client.
FetchAddUser(key) ==
    /\ fetch.pc = "idle" /\ key \notin fetch.users
    /\ fetch' = [fetch EXCEPT !.users = @ \cup {key}]
    /\ UNCHANGED <<local, remote, obs, scn, conv, srv, net, cwd, call, graph>>

\* A client that queues the hash of the missing content blob; C28 holds for it.
client_fetch_objects_queue_of_contents(f) ==
    {h \in f.dag : ~Store_has(f.blobs, h)}
    \cup {c \in ContentHashes :
            \E h \in f.dag : Store_has(f.blobs, h) /\ c \in Snapshot_files(h)
                             /\ ~Store_has(f.blobs, c)}

\* client_fetch_objects, the walk over the DAG: a snapshot that does not
\* load is queued and is to be resolved; for a snapshot that loads, its own
\* hash is queued for each of its content blobs that does not load.  The
\* queue is kept as a set: a hash queued twice is asked for twice and
\* answered alike.
client_fetch_objects_queue(f) ==
    {h \in f.dag : ~Store_has(f.blobs, h)}
    \cup {h \in f.dag : Store_has(f.blobs, h)
                        /\ \E c \in Snapshot_files(h) : ~Store_has(f.blobs, c)}

FetchStart ==
    /\ fetch.pc = "idle"
    /\ fetch' = [fetch EXCEPT
           !.pc = "loop",
           !.queue = client_fetch_objects_queue(fetch),
           !.snapshots_to_resolve = {h \in fetch.dag : ~Store_has(fetch.blobs, h)},
           !.contents = {}]
    /\ UNCHANGED <<local, remote, obs, scn, conv, srv, net, cwd, call, graph>>

\* client_fetch_objects, a turn of the loop: PENDING and the next hash.
FetchSend(next) ==
    /\ fetch.pc = "loop" /\ next \in fetch.queue
    /\ fetch' = [fetch EXCEPT !.pc = "sent", !.queue = @ \ {next}, !.next = next]
    /\ UNCHANGED <<local, remote, obs, scn, conv, srv, net, cwd, call, graph>>

\* server_serve_objects, a turn of the loop: a hash of the DAG is answered
\* with its snapshot, any other hash with its content blob, and a hash that
\* does not load with an error.
FetchServe ==
    /\ fetch.pc = "sent"
    /\ fetch' = [fetch EXCEPT
           !.pc = "received",
           !.reply = IF ~Store_has(Fetch_server_blobs, fetch.next) THEN "error"
                     ELSE IF fetch.next \in Fetch_server_history THEN "Commit"
                     ELSE "Content"]
    /\ UNCHANGED <<local, remote, obs, scn, conv, srv, net, cwd, call, graph>>

\* client_fetch_objects, the answer: the files of a snapshot that was to be
\* resolved are queued; the original of a delta that does not resolve
\* locally is queued; the object is kept under the hash asked for.
FetchReceive ==
    /\ fetch.pc = "received"
    /\ fetch' =
         IF fetch.reply = "error"
         THEN [fetch EXCEPT !.pc = "failed", !.reply = "none"]
         ELSE LET files == IF fetch.reply = "Commit" /\ fetch.next \in fetch.snapshots_to_resolve
                           THEN Snapshot_files(fetch.next) ELSE {}
                  original == IF /\ fetch.reply = "Content"
                                 /\ Content_is_delta(fetch.next)
                                 /\ ~Store_resolves(fetch.blobs, Delta_original(fetch.next))
                              THEN {Delta_original(fetch.next)} ELSE {}
              IN  [fetch EXCEPT !.pc = "loop", !.reply = "none",
                                !.queue = @ \cup files \cup original,
                                !.contents = @ \cup {fetch.next}]
    /\ UNCHANGED <<local, remote, obs, scn, conv, srv, net, cwd, call, graph>>

\* client_fetch_objects with an empty queue: DONE is sent, the objects are
\* returned.
FetchDone ==
    /\ fetch.pc = "loop" /\ fetch.queue = {}
    /\ fetch' = [fetch EXCEPT !.pc = "save"]
    /\ UNCHANGED <<local, remote, obs, scn, conv, srv, net, cwd, call, graph>>

\* save_snapshot bails for a snapshot of an unknown author.
Fetch_save_fails(f, hash) ==
    hash \in Hashes /\ Snapshot_signature_key(hash) \notin f.users

\* handle_pull_as_client, the loop over the fetched objects, in the order of
\* the HashMap: every object is saved, or the handler returns at the first
\* snapshot that save_snapshot refuses, with the objects before it saved.
FetchSave(saved) ==
    /\ fetch.pc = "save"
    /\ saved \subseteq fetch.contents
    /\ \A hash \in saved : ~Fetch_save_fails(fetch, hash)
    /\ IF \E hash \in fetch.contents : Fetch_save_fails(fetch, hash)
       THEN fetch' = [fetch EXCEPT !.pc = "failed", !.blobs = @ \cup saved]
       ELSE /\ saved = fetch.contents
            /\ fetch' = [fetch EXCEPT !.pc = "done", !.blobs = @ \cup saved]
    /\ UNCHANGED <<local, remote, obs, scn, conv, srv, net, cwd, call, graph>>

\* The handler has returned; the next conversation can begin.
FetchReturn ==
    /\ fetch.pc \in {"done", "failed"}
    /\ fetch' = [fetch EXCEPT !.pc = "idle", !.queue = {}, !.snapshots_to_resolve = {},
                              !.contents = {}, !.next = 0]
    /\ UNCHANGED <<local, remote, obs, scn, conv, srv, net, cwd, call, graph>>

FetchNext ==
    \/ \E tip \in Hashes : FetchExtendHistory(tip)
    \/ \E key \in Keys : FetchAddUser(key)
    \/ FetchStart
    \/ \E next \in Hashes \cup ContentHashes : FetchSend(next)
    \/ FetchServe
    \/ FetchReceive
    \/ FetchDone
    \/ \E saved \in SUBSET (Hashes \cup ContentHashes) : FetchSave(saved)
    \/ FetchReturn

FetchSpec == Init /\ [][FetchNext]_vars

----------------------------------------------------------------------------
(* AppendSpec: append_snapshot and save_snapshot as calls on a Repository  *)
(* value, with the calls that return an error.                             *)

\* append_snapshot_internal when save_snapshot returns an error: the branch
\* was created or moved before the call of save_snapshot, save_snapshot has
\* inserted the edges to the parents before it fails, and `?` returns before
\* current_hash is assigned.
Repository_append_snapshot_internal_err(r, hash, branch_name) ==
    LET r1 == IF branch_name = {}
              THEN r
              ELSE [r EXCEPT !.branches =
                       NamedHashes_create(r.branches, CHOOSE n \in branch_name : TRUE, hash)]
    IN  Repository_save_snapshot_edges(r1, hash)

\* repo.append_snapshot(snapshot) for a snapshot made by commit_current_state
\* on HEAD; written tells whether save_as_msgpack could write the file.
AppendSnapshot(hash, written) ==
    /\ SyncIdle
    /\ Cardinality(DOMAIN local.history) <= MaxCommits
    /\ hash \in NewSnapshots(local.current_hash)
    /\ Repository_current_user_valid(local)
    /\ LET on == Repository_branch_from_hash(local, local.current_hash)
       IN  \E branch_name \in (IF on = {} THEN {{}} ELSE {{n} : n \in on}) :
             local' = IF written
                      THEN Repository_append_snapshot_internal(local, hash, branch_name)
                      ELSE Repository_append_snapshot_internal_err(local, hash, branch_name)
    /\ call' = [op |-> "append_snapshot", ends |-> IF written THEN "ok" ELSE "error",
                before |-> local]
    /\ obs' = Obs_none /\ scn' = Scn_none /\ conv' = Conv_idle
    /\ UNCHANGED <<net, cwd, graph, fetch, remote, srv>>

\* repo.save_snapshot(snapshot) for a snapshot received from a peer and
\* signed by key: the edges are inserted, then an unknown author is refused.
SaveSnapshot(hash, key) ==
    /\ SyncIdle
    /\ hash \notin DOMAIN local.history
    /\ LET r1 == Repository_save_snapshot_edges(local, hash)
           ok == Repository_has_account(local, key)
       IN  /\ local' = IF ok THEN [r1 EXCEPT !.objects = @ \cup {hash}] ELSE r1
           /\ call' = [op |-> "save_snapshot", ends |-> IF ok THEN "ok" ELSE "error",
                       before |-> local]
    /\ obs' = Obs_none /\ scn' = Scn_none /\ conv' = Conv_idle
    /\ UNCHANGED <<net, cwd, graph, fetch, remote, srv>>

AppendNext ==
    \/ \E name \in BranchNames : BranchNew(name, 0)
    \/ \E hash \in Hashes, written \in BOOLEAN : AppendSnapshot(hash, written)
    \/ \E hash \in Hashes, key \in Keys : SaveSnapshot(hash, key)

AppendSpec == Init /\ [][AppendNext]_vars

----------------------------------------------------------------------------
(* StashSpec: the working directory commands, with `asc stash new` *)

\* asc stash new.  parse has loaded the repository; it calls parse for
\* `save`, which loads the repository again, adds the entry to the value it
\* loaded and saves it.  The outer call then replaces the working directory
\* with the files of the current snapshot, in the value it loaded before the
\* entry was added, and the save at the end of parse writes that value.
StashNew ==
    /\ cwd.stash_count < MaxStash
    /\ LET nested == Stash_add_state(cwd, [path \in {} |-> 0])
           outer == replace_cwd_with_files(cwd, cwd.head)
           saved == [nested EXCEPT !.files = outer.files,
                                   !.staged_files = outer.staged_files,
                                   !.stash = outer.stash,
                                   !.stash_count = outer.stash_count]
       IN  cwd' = IF cwd.staged_files # {}
                  THEN Cwd_done(cwd, "stash new", "error")
                  ELSE Cwd_done_id(saved, "stash new", "ok", nested.stash_count - 1)
    /\ UNCHANGED <<local, remote, obs, scn, conv, srv, net, call, graph, fetch>>

StashNext ==
    \/ CwdNext
    \/ StashNew

StashSpec == Init /\ [][StashNext]_vars

----------------------------------------------------------------------------
(* HeadSpec: HEAD under the trash commands, switch, undo and redo *)

\* asc switch <version>: refused with unsaved changes; the version is looked
\* up among the branch names and the hashes of the DAG, its snapshot is
\* loaded, SwitchVersion is recorded and HEAD moves.
Switch(hash, unsaved) ==
    /\ SyncIdle /\ CanRecord(local)
    /\ ~unsaved
    /\ hash \in DOMAIN local.history /\ hash \in local.objects
    /\ local' = [Record(local, SwitchVersion(local.current_hash, hash))
                    EXCEPT !.current_hash = hash]
    /\ obs' = Obs_none /\ scn' = Scn_none /\ conv' = Conv_idle
    /\ UNCHANGED <<net, cwd, call, graph, fetch, remote, srv>>

HeadNext ==
    \/ \E hash \in Hashes : Commit(hash)
    \/ \E hash \in Hashes, unsaved \in BOOLEAN : TrashAddCmd(hash, unsaved)
    \/ \E hash \in Hashes : TrashRecoverCmd(hash)
    \/ \E hash \in Hashes, unsaved \in BOOLEAN : Switch(hash, unsaved)
    \/ Undo
    \/ Redo

HeadSpec == Init /\ [][HeadNext]_vars

----------------------------------------------------------------------------
(* RebaseSpec: pull and push between two repositories whose operators      *)
(* commit, and rebase on the local one.                                    *)

RebaseSnapshot(hash, from, to) ==
    [type |-> "RebaseSnapshot", hash |-> hash, from |-> from, to |-> to]

\* A rebase that refuses the root snapshot only; C38 fails for it.
Rebase_refused_for_root_only(history, current, new_parent) == current = RootHash

\* check_parenthood: the search from child along the parent edges for
\* parent; get_parents(next).unwrap() panics on a hash that is no key.
check_parenthood(history, child, parent) == Graph_is_descendant(history, child, parent)

\* The three refusals of parse: the root snapshot, a new parent that is the
\* snapshot itself, and a new parent from which the snapshot is reached.
Rebase_refused(history, current, new_parent) ==
    \/ current = RootHash
    \/ current = new_parent
    \/ check_parenthood(history, new_parent, current) # "false"

\* asc rebase <snapshot> <new_parent>: refused for the root snapshot, for a
\* new parent that is the snapshot itself and for one from which the search
\* along the parent edges reaches the snapshot.  The parents of the snapshot
\* in the DAG are replaced, the action is recorded and the repository is
\* saved, which validates the history.
Rebase(current, new_parent) ==
    /\ SyncIdle /\ CanRecord(local)
    /\ current \in DOMAIN local.history /\ new_parent \in DOMAIN local.history
    /\ ~Rebase_refused(local.history, current, new_parent)
    /\ LET r1 == [local EXCEPT !.history = Graph_upsert(@, current, {new_parent})]
           r2 == Record(r1, RebaseSnapshot(current, local.history[current], {new_parent}))
       IN  /\ Repository_validate_history(r2)
           /\ local' = r2
    /\ obs' = Obs_none /\ scn' = Scn_none /\ conv' = Conv_idle
    /\ UNCHANGED <<net, cwd, call, graph, fetch, remote, srv>>

RebaseNext ==
    \/ SyncNext
    \/ \E current \in Hashes, new_parent \in Hashes : Rebase(current, new_parent)

RebaseSpec == Init /\ [][RebaseNext]_vars

----------------------------------------------------------------------------
(* HistorySpec: the ActionHistory of a repository under push, undo and redo *)

\* repo.action_history.push(action)
HistoryPush(action) ==
    /\ CanRecord(local)
    /\ local' = Record(local, action)
    /\ call' = [op |-> "push", action |-> action, before |-> local.action_history]
    /\ UNCHANGED <<remote, obs, scn, conv, srv, net, cwd, graph, fetch>>

\* repo.action_history.undo(): None at the bottom of the list.
HistoryUndo ==
    /\ local' = IF ActionHistory_can_undo(local.action_history)
                THEN [local EXCEPT !.action_history = ActionHistory_undo(@)]
                ELSE local
    /\ call' = [op |-> "undo", before |-> local.action_history,
                returned |-> ActionHistory_can_undo(local.action_history)]
    /\ UNCHANGED <<remote, obs, scn, conv, srv, net, cwd, graph, fetch>>

\* repo.action_history.redo(): None when the cursor is at the end.
HistoryRedo ==
    /\ local' = IF ActionHistory_can_redo(local.action_history)
                THEN [local EXCEPT !.action_history = ActionHistory_redo(@)]
                ELSE local
    /\ call' = [op |-> "redo", before |-> local.action_history,
                returned |-> ActionHistory_can_redo(local.action_history)]
    /\ UNCHANGED <<remote, obs, scn, conv, srv, net, cwd, graph, fetch>>

HistoryNext ==
    \/ \E hash \in Hashes : HistoryPush(TrashAdd(hash))
    \/ HistoryUndo
    \/ HistoryRedo

HistorySpec == Init /\ [][HistoryNext]_vars

----------------------------------------------------------------------------
(* LockSpec: conversations served concurrently on one Repository handle *)

\* How many conversations share the handle.
NumHandlers == 2

Handlers == 1..NumHandlers

\* Nothing has been called on the handle: the mutex is free (owner 0), no
\* handler has started, read a tip or replaced one.
Handlers_new ==
    [op        |-> "handlers",
     owner     |-> 0,
     pc        |-> [t \in Handlers |-> "idle"],
     seen      |-> [t \in Handlers |-> NoTip],
     previous  |-> [t \in Handlers |-> NoTip],
     accesses  |-> <<>>,
     contended |-> FALSE]

Handlers_of(c) == IF c.op = "handlers" THEN c ELSE Handlers_new

\* A lock that is granted while another guard is alive; C40 fails for it.
Repo_lock_ready_always(owner) == TRUE

\* Repo = Arc<Mutex<Repository>>: lock().await completes only while no guard
\* is alive.
Repo_lock_ready(owner) == owner = 0

\* handle_push_as_server is called with the handle and reaches
\* repo.lock().await.
HandlerCall(t) ==
    LET c == Handlers_of(call)
    IN  /\ c.pc[t] = "idle"
        /\ call' = [c EXCEPT !.pc[t] = "waiting",
                             !.contended = @ \/ c.owner # 0]
        /\ UNCHANGED <<local, remote, obs, scn, conv, srv, net, cwd, graph, fetch>>

\* let mut repo = repo.lock().await: the guard is bound to a local of the
\* handler.
HandlerLock(t) ==
    LET c == Handlers_of(call)
    IN  /\ c.pc[t] = "waiting"
        /\ Repo_lock_ready(c.owner)
        /\ call' = [c EXCEPT !.pc[t] = "locked", !.owner = t]
        /\ UNCHANGED <<local, remote, obs, scn, conv, srv, net, cwd, graph, fetch>>

\* The first access: the tip of the branch is read and sent to the client.
HandlerRead(t) ==
    LET c == Handlers_of(call)
    IN  /\ c.pc[t] = "locked"
        /\ call' = [c EXCEPT !.pc[t] = "read",
                             !.seen[t] = remote.branches["main"],
                             !.accesses = Append(@, t)]
        /\ UNCHANGED <<local, remote, obs, scn, conv, srv, net, cwd, graph, fetch>>

\* The branch is moved to the tip of the client and the move is recorded.
HandlerUpdate(t, client_tip) ==
    LET c == Handlers_of(call)
    IN  /\ c.pc[t] = "read"
        /\ remote' = Push_server_branch(remote, "main", client_tip, {})
        /\ call' = [c EXCEPT !.pc[t] = "updated",
                             !.previous[t] = remote.branches["main"],
                             !.accesses = Append(@, t)]
        /\ UNCHANGED <<local, obs, scn, conv, srv, net, cwd, graph, fetch>>

\* The handler returns, by Ok or by an error of the stream, and the guard is
\* dropped with its locals.
HandlerReturn(t) ==
    LET c == Handlers_of(call)
    IN  /\ c.pc[t] \in {"locked", "read", "updated"}
        /\ call' = [c EXCEPT !.pc[t] = "returned",
                             !.owner = IF @ = t THEN 0 ELSE @]
        /\ UNCHANGED <<local, remote, obs, scn, conv, srv, net, cwd, graph, fetch>>

LockNext ==
    \E t \in Handlers :
        \/ HandlerCall(t)
        \/ HandlerLock(t)
        \/ HandlerRead(t)
        \/ \E client_tip \in Hashes : HandlerUpdate(t, client_tip)
        \/ HandlerReturn(t)

LockSpec == Init /\ [][LockNext]_vars

----------------------------------------------------------------------------
(* Claims about login *)

\* C1: the server carries out a turn of the body of a pull or a push only
\* after it has answered the login with Ok(()): the signature verified
\* against the secret, its key is that of a user, and the user may pull
\* (or push).
C1_BodyOnlyAfterLoginOk ==
    (srv.pc # "idle" /\ srv.kind \in {"pull", "push"} /\ srv.steps > 0)
        => srv.login = "ok"

\* C2: after a project code that does not match, the server carries out no
\* step of a pull or a push and serves no object.
C2_MismatchAborts ==
    (srv.pc # "idle" /\ srv.login = "mismatch") => srv.steps = 0

\* C3: the clone server sends the repository only to a client whose
\* signature verifies against the server's secret.
C3_CloneOnlyToVerified ==
    (srv.pc # "idle" /\ srv.kind = "clone" /\ srv.sent_repo) => srv.verified

----------------------------------------------------------------------------
(* Claims about undo and redo *)

\* C6: after an action was performed and recorded, undo followed by redo
\* leaves branches, tags, HEAD, the user accounts, the trash and the cursor
\* of the action history as they were right after the action.
C6_UndoThenRedoRestores ==
    obs.stage = 3 => View(local) = obs.post

\* C7: after an action was performed in a state S and recorded, undo brings
\* branches, tags, HEAD, the user accounts and the trash back to their
\* values in S.
C7_UndoRestoresStateBefore ==
    obs.stage = 2 =>
        /\ local.branches = obs.pre.branches
        /\ local.tags = obs.pre.tags
        /\ local.current_hash = obs.pre.current_hash
        /\ local.users = obs.pre.users
        /\ local.trash = obs.pre.trash

\* C8: with neither dev nor feature in the branches table, after branch new
\* dev, branch rename dev feature and two undos both names are absent and the
\* table is the one before the sequence; after two redos feature points at
\* HEAD and dev is absent.
C8_ScenarioCreateRenameUndoRedo ==
    /\ scn.stage = 4 =>
          /\ "dev" \notin DOMAIN local.branches
          /\ "feature" \notin DOMAIN local.branches
          /\ local.branches = scn.pre
    /\ scn.stage = 6 =>
          /\ "dev" \notin DOMAIN local.branches
          /\ "feature" \in DOMAIN local.branches
          /\ local.branches["feature"] = scn.head

----------------------------------------------------------------------------
(* Claims about pull and push *)

\* The last conversation was a pull that ran to its end, and nothing has
\* happened since.
PullEnded == conv.phase = "idle" /\ conv.prev.kind = "pull"

Tips(r) == NamedHashes_hashes(r.branches) \cup NamedHashes_hashes(r.tags)

Graph_subgraph(g1, g2) ==
    \A h \in DOMAIN g1 : h \in DOMAIN g2 /\ g1[h] \subseteq g2[h]

\* C4: in a push, a branch that exists on the remote and whose local tip
\* does not descend from the remote tip is answered with SplitHistory, and
\* the remote's pointer for it stays where it was.
C4_SplitHistoryKeepsRemoteTip ==
    [][\A name \in DOMAIN local.branches :
         (/\ PushBranch(name)
          /\ name \in DOMAIN remote.branches
          /\ remote.branches[name] \notin Ancestors(local.branches[name]))
         => /\ conv'.phase = "branches"
            /\ conv'.results[name] = "SplitHistory"
            /\ remote'.branches[name] = remote.branches[name]]_vars

C4_Witness ==
    /\ conv.phase = "branches" /\ conv.kind = "push"
    /\ \E name \in DOMAIN conv.results :
         /\ conv.results[name] = "SplitHistory"
         /\ remote.branches[name] \notin Ancestors(local.branches[name])

\* C5: a pull removes nothing locally: every snapshot that a local branch or
\* tag pointed at before the pull is pointed at by a local branch or tag
\* after it, or at least is an ancestor of one that is, and the local DAG
\* keeps all its nodes and edges.
C5_PullNeverRemoves ==
    PullEnded =>
        /\ \A h \in Tips(conv.prev.pre) : h \in Graph_reach(local.history, Tips(local), {})
        /\ Graph_subgraph(conv.prev.pre.history, local.history)

\* C9: a second pull right after a pull that ran to its end changes nothing:
\* every branch is reported up to date (or absent from the remote), no tag
\* is new, and the local branches, tags, DAG and action history are as they
\* were before it.
C9_SecondPullIsNoOp ==
    (PullEnded /\ conv.prev.before.kind = "pull") =>
        /\ \A n \in DOMAIN conv.prev.results :
              conv.prev.results[n] \in {"UpToDate", "NotOnRemote"}
        /\ DOMAIN conv.prev.tag_results = {}
        /\ local.branches = conv.prev.pre.branches
        /\ local.tags = conv.prev.pre.tags
        /\ local.history = conv.prev.pre.history
        /\ local.action_history = conv.prev.pre.action_history

PullUnchanged ==
    /\ local.branches = conv.prev.pre.branches
    /\ local.tags = conv.prev.pre.tags
    /\ local.history = conv.prev.pre.history
    /\ local.action_history = conv.prev.pre.action_history

\* C10 as stated: a pull right after a push that ran to its end changes none
\* of the local branches, tags, DAG and action history.
C10_PullAfterPushIsNoOp ==
    (PullEnded /\ conv.prev.before.kind = "push") => PullUnchanged

\* The push before refused no branch and reported no tag conflict, and the
\* remote has no tag that the local repository lacks.
PushWasClean ==
    /\ \A n \in DOMAIN conv.prev.before.results :
          conv.prev.before.results[n] # "SplitHistory"
    /\ \A n \in DOMAIN conv.prev.before.tag_results :
          conv.prev.before.tag_results[n] # "Conflict"
    /\ \A n \in DOMAIN remote.tags : n \in DOMAIN conv.prev.pre.tags

\* C10, amended: a pull right after a push in which no branch was refused as
\* SplitHistory and no tag was in conflict, from a remote that has no tag
\* the local repository lacks, changes none of the local branches, tags,
\* DAG and action history.
C10_PullAfterCleanPushIsNoOp ==
    (PullEnded /\ conv.prev.before.kind = "push" /\ PushWasClean) => PullUnchanged

C10_Witness ==
    /\ PullEnded /\ conv.prev.before.kind = "push" /\ PushWasClean
    /\ \E n \in DOMAIN conv.prev.before.results :
          conv.prev.before.results[n] \in {"FastForward", "CreatedOnRemote"}
    /\ DOMAIN local.tags # {}

----------------------------------------------------------------------------
(* Claims about clone *)

\* The last conversation was a clone that ran to its end: local is the
\* clone of remote.
CloneEnded == conv.phase = "idle" /\ conv.prev.kind = "clone"

\* C11: after a clone the branches and the tags of the clone equal those of
\* the cloned repository, and every snapshot the cloned repository stores
\* and reaches from a branch or a tag is stored in the clone and is a node
\* of its DAG with the same parents.
C11_CloneEqualsOrigin ==
    CloneEnded =>
        /\ local.branches = remote.branches
        /\ local.tags = remote.tags
        /\ \A h \in Graph_reach(remote.history, Tips(remote), {}) \cap remote.objects :
              /\ h \in local.objects
              /\ h \in DOMAIN local.history
              /\ local.history[h] = remote.history[h]

\* C12: when the transport closes during a pull or a push, the conversation
\* returns a ConnectionAborted error and nothing of it is persisted: both
\* repositories are on disk as they were when the conversation started.
C12_ClosedTransportPersistsNothing ==
    (conv.phase = "idle" /\ conv.prev.kind = "aborted") =>
        /\ conv.prev.error = "ConnectionAborted"
        /\ local = conv.prev.pre
        /\ remote = conv.prev.served

\* C13: messages are framed one in, one out: the calls of receive return
\* exactly the values sent, in order, and once every byte written has been
\* delivered and read nothing that was sent is missing, however the
\* transport cut the bytes into chunks.
C13_ReceivedIsSent ==
    /\ Len(net.received) <= Len(net.sent)
    /\ \A i \in 1..Len(net.received) :
          net.received[i] = [ok |-> TRUE, value |-> net.sent[i]]
    /\ (net.pipe = <<>> /\ net.wire = <<>> /\ net.read_extra = <<>>)
          => Len(net.received) = Len(net.sent)

\* C14: when a pull classified the branch n as Conflict with the local tip L
\* and the remote tip R, then after the pull n points at R, n-local points
\* at L, and MoveBranch{n, L, R} and CreateBranch{n-local, L} are recorded.
C14_ConflictKeepsBothTips ==
    PullEnded =>
        \A c \in conv.prev.conflicts :
            /\ c.name \in DOMAIN local.branches
            /\ local.branches[c.name] = c.remote_tip
            /\ Local(c.name) \in DOMAIN local.branches
            /\ local.branches[Local(c.name)] = c.local_tip
            /\ \E i \in 1..Len(local.action_history.inner) :
                  local.action_history.inner[i] = MoveBranch(c.name, c.local_tip, c.remote_tip)
            /\ \E i \in 1..Len(local.action_history.inner) :
                  local.action_history.inner[i] = CreateBranch(Local(c.name), c.local_tip)

\* C15: after a successful pull every branch name and every tag name of the
\* remote exists locally and points at the hash the remote has for it.
C15_PullMirrorsRemoteNames ==
    PullEnded =>
        /\ \A n \in DOMAIN remote.branches :
              n \in DOMAIN local.branches /\ local.branches[n] = remote.branches[n]
        /\ \A n \in DOMAIN remote.tags :
              n \in DOMAIN local.tags /\ local.tags[n] = remote.tags[n]

\* C16: no pull, push or clone server grants a successful login to a
\* signature made with the key of a closed account.
C16_ClosedAccountNeverLogsIn ==
    (srv.pc # "idle" /\ srv.verified /\ (srv.login = "ok" \/ srv.sent_repo)) =>
        ~(srv.key \in DOMAIN remote.users /\ remote.users[srv.key].closed)

\* What the variants of Action say happened, by their fields and display
\* texts: `pre` and `post` are the views before and after the operation.
Action_describes(action, pre, post) ==
    CASE action.type = "CreateBranch" ->
            /\ action.name \notin DOMAIN pre.branches
            /\ post.branches = NamedHashes_create(pre.branches, action.name, action.hash)
      [] action.type = "DeleteBranch" ->
            /\ action.name \in DOMAIN pre.branches
            /\ pre.branches[action.name] = action.hash
            /\ post.branches = NamedHashes_remove(pre.branches, action.name)
      [] action.type = "RenameBranch" ->
            /\ action.old \in DOMAIN pre.branches
            /\ pre.branches[action.old] = action.hash
            /\ post.branches = NamedHashes_create(
                   NamedHashes_remove(pre.branches, action.old), action.new, action.hash)
      [] action.type = "CreateTag" ->
            /\ action.name \notin DOMAIN pre.tags
            /\ post.tags = NamedHashes_create(pre.tags, action.name, action.hash)
      [] action.type = "RemoveTag" ->
            /\ action.name \in DOMAIN pre.tags
            /\ pre.tags[action.name] = action.hash
            /\ post.tags = NamedHashes_remove(pre.tags, action.name)
      [] action.type = "RenameTag" ->
            /\ action.old \in DOMAIN pre.tags
            /\ pre.tags[action.old] = action.hash
            /\ post.tags = NamedHashes_create(
                   NamedHashes_remove(pre.tags, action.old), action.new, action.hash)
      [] OTHER -> FALSE

\* C17: a command that performs a semantic action records the Action that
\* matches it: the recorded variant and fields say what the command did.
C17_RecordedActionMatches ==
    obs.stage = 1 => Action_describes(obs.action, obs.pre, obs.post)

\* C18: when the key in the cell refers to a user who is missing, closed or
\* without private key, current_user() returns no user and leaves the cell
\* cleared (None).
C18_InvalidCurrentUserIsCleared ==
    (call.op = "current_user" /\ call.case \in {"missing", "closed", "no private key"}) =>
        (call.ends = "returned" /\ call.user = "None" /\ call.cell = "None")

\* C19: after a successful append_snapshot(s) HEAD is s.hash; when HEAD was
\* on the tip of a branch, that branch (the one current_branch returned)
\* points at s.hash and every other branch is unchanged; when HEAD was
\* detached no branch moved.  In Spec the steps that store a new snapshot
\* are the commits.
C19_AppendMovesOnlyCurrentBranch ==
    [][local'.objects # local.objects =>
          /\ local'.current_hash \in local'.objects \ local.objects
          /\ LET on == Repository_branch_from_hash(local, local.current_hash)
             IN  IF on = {}
                 THEN local'.branches = local.branches
                 ELSE \E n \in on :
                         local'.branches =
                             NamedHashes_create(local.branches, n, local'.current_hash)
      ]_vars

\* A commit was appended on a branch while another branch stayed at the root.
C19_Witness ==
    /\ local.current_hash # RootHash
    /\ local.current_hash \in local.objects
    /\ \E n \in DOMAIN local.branches, m \in DOMAIN local.branches :
          /\ n # m
          /\ local.branches[n] = local.current_hash
          /\ local.branches[m] = RootHash

\* C20: whenever replace_cwd_with_snapshot, called with the snapshot HEAD is
\* on, returns successfully, has_unsaved_changes() is false right after it.
C20_ReplaceWithHeadLeavesNoChanges ==
    (cwd.last.op = "replace_cwd_with_snapshot" /\ cwd.last.result = "ok") =>
        ~has_unsaved_changes(cwd)

----------------------------------------------------------------------------
(* Claims about the trash *)

\* The hashes listed in the trash of the local repository.
Trash_listed == {local.trash[i] : i \in 1..Len(local.trash)}

\* C21: for every snapshot h of the history, trash_contains(h) is Direct
\* exactly when h is an entry of the trash; it is Indirect(t) only for an
\* entry t that h, itself not an entry, descends from, and it is Indirect
\* whenever h is no entry and descends from one; in every other case it is
\* None.
C21_TrashContainsClassifies ==
    \A h \in DOMAIN local.history :
        LET s == Repository_trash_contains(local, h)
            above == {t \in Trash_listed : t \in Ancestors(h)}
        IN  /\ s.status \in {"Direct", "Indirect", "None"}
            /\ (s.status = "Direct") <=> (h \in Trash_listed)
            /\ (s.status = "Indirect") <=> (h \notin Trash_listed /\ above # {})
            /\ (s.status = "Indirect") => (s.hash \in above)

\* The chain 1 <- 2 <- 4 with 2 in the trash: 2 is Direct, 4 is
\* Indirect(2) and 1 is not in the trash.
C21_Witness ==
    /\ {1, 2, 4} \subseteq DOMAIN local.history
    /\ local.trash = <<2>>
    /\ Repository_trash_contains(local, 2).status = "Direct"
    /\ Repository_trash_contains(local, 4) = [status |-> "Indirect", hash |-> 2]
    /\ Repository_trash_contains(local, 1).status = "None"

----------------------------------------------------------------------------
(* Claims about the stash *)

\* C22: after a successful `asc stash pop` of the entry id, the stash no
\* longer contains id.
C22_PopDeletesEntry ==
    (cwd.last.op = "stash pop" /\ cwd.last.result = "ok") =>
        cwd.last.id \notin DOMAIN cwd.stash

----------------------------------------------------------------------------
(* Claims about clone, the DAG and the push server *)

\* C23: after a clone, no user record of the clone holds a private key.
C23_CloneHasNoPrivateKeys ==
    CloneEnded => \A k \in DOMAIN local.users : ~local.users[k].private_key

\* A clone of a repository that holds the private key of one of its users.
C23_Witness ==
    /\ CloneEnded
    /\ DOMAIN local.users # {}
    /\ \E k \in DOMAIN remote.users : remote.users[k].private_key
    /\ DOMAIN local.users = DOMAIN remote.users

\* The hashes that the branches and the tags of a repository point at.
Repository_refs(r) == NamedHashes_hashes(r.branches) \cup NamedHashes_hashes(r.tags)

\* C24: in the local and in the remote repository, every hash that a branch
\* or a tag points at and that is not in the trash is a key of the DAG of
\* that repository.
C24_RefsAreDagKeys ==
    \A r \in {local, remote} :
        \A h \in Repository_refs(r) :
            Trash_contains(r.trash, h) \/ h \in DOMAIN r.history

\* C25: every hash in the parent set of a node of the graph is itself a key
\* of the graph.
C25_ParentsAreKeys ==
    \A h \in DOMAIN graph : \A p \in graph[h] : p \in DOMAIN graph

\* C26: in every step of the push handler for a client whose login was
\* answered with Ok, a branch that existed before the step and whose
\* pointer changed points at a descendant of its previous tip.
C26_ServerOnlyFastForwards ==
    [][(srv.pc = "loop" /\ srv.kind = "push" /\ srv.login = "ok" /\ srv.verified) =>
           \A name \in DOMAIN remote.branches \cap DOMAIN remote'.branches :
               remote'.branches[name] # remote.branches[name] =>
                   remote.branches[name] \in Ancestors(remote'.branches[name])]_vars

----------------------------------------------------------------------------
(* Claims about the conversations *)

\* C27: every conversation that has begun leads to a state in which both
\* the client handler and the server handler have returned.
C27_ConversationsTerminate == Talking ~> (ClientEnded /\ ServerEnded)

\* The branches for which the push client holds a result that says the
\* server took the branch.
Push_reported == {n \in DOMAIN conv.results : conv.results[n] \in {"FastForward", "CreatedOnRemote"}}

\* C29: a step of the push server that handles the objects of a branch
\* either fails and leaves the branch pointers as they were, or ends with
\* every received object stored, the branch at the tip of the client and
\* the matching CreateBranch or MoveBranch recorded last; and the client
\* holds the result of a pushed branch only when the server has done so.
C29_PersistMoveThenAcknowledge ==
    /\ [][(Talking /\ srv.pc = "objects" /\ srv'.pc # "objects") =>
             IF srv'.pc = "failed"
             THEN remote'.branches = remote.branches
             ELSE /\ Head(conv.c2s).v \subseteq remote'.objects
                  /\ remote'.branches[srv.cur] = srv.tip
                  /\ remote'.action_history.inner[remote'.action_history.index] =
                         IF srv.cur \in DOMAIN remote.branches
                         THEN MoveBranch(srv.cur, remote.branches[srv.cur], srv.tip)
                         ELSE CreateBranch(srv.cur, srv.tip)]_vars
    /\ []((Talking /\ conv.kind = "push") => Push_reported \subseteq srv.moved)

\* C29 without the acknowledgement of each branch: the step of the push
\* server is as above, and when the push client returns its results (after
\* the answer to its tags, the only message that follows the objects) the
\* server has stored, moved and recorded every branch the results report
\* as pushed.
C29_PersistMoveThenReturn ==
    /\ [][(Talking /\ srv.pc = "objects" /\ srv'.pc # "objects") =>
             IF srv'.pc = "failed"
             THEN remote'.branches = remote.branches
             ELSE /\ Head(conv.c2s).v \subseteq remote'.objects
                  /\ remote'.branches[srv.cur] = srv.tip
                  /\ remote'.action_history.inner[remote'.action_history.index] =
                         IF srv.cur \in DOMAIN remote.branches
                         THEN MoveBranch(srv.cur, remote.branches[srv.cur], srv.tip)
                         ELSE CreateBranch(srv.cur, srv.tip)]_vars
    /\ []((Talking /\ conv.kind = "push" /\ conv.pc = "done") =>
              Push_reported \subseteq srv.moved)

\* A push that returned with a branch reported as pushed, whose objects the
\* server stored before it moved the branch.
C29_Witness ==
    /\ Talking /\ conv.kind = "push" /\ conv.pc = "done"
    /\ Push_reported # {}
    /\ \A n \in Push_reported :
           /\ n \in srv.moved
           /\ remote.branches[n] = local.branches[n]
           /\ local.branches[n] \in remote.objects \ srv.disk.objects

\* C30: when the push client has returned its results, the server has
\* saved its repository: what is on its disk has every pushed branch at the
\* tip of the client and every tag of the client it lacked.
C30_SavedBeforeClientReturns ==
    (Talking /\ conv.kind = "push" /\ conv.pc = "done") =>
        /\ srv.pc = "done"
        /\ \A n \in Push_reported : srv.disk.branches[n] = local.branches[n]
        /\ \A n \in DOMAIN local.tags : n \in DOMAIN srv.disk.tags

\* The snapshots of the client's DAG all load, and so does, resolved, every
\* content blob of their files.
Fetch_complete(f) ==
    \A h \in f.dag :
        /\ Store_has(f.blobs, h)
        /\ \A c \in Snapshot_files(h) : Store_resolves(f.blobs, c)

\* C28: when the object fetch phase of a pull has ended successfully and the
\* fetched objects are saved, every snapshot of the local DAG loads, and
\* every content blob of those snapshots is present locally with its delta
\* originals, transitively.
C28_FetchLeavesNothingUnknown ==
    fetch.pc = "done" => Fetch_complete(fetch)

\* The turn of the pull client's loop that handles the branch name.
Pull_handles(name) ==
    /\ conv.phase = "branches" /\ conv.kind = "pull" /\ name \in conv.todo
    /\ conv'.phase = "branches" /\ name \notin conv'.todo

\* C31: a pull reports FastForward for a branch exactly when the remote tip
\* is a descendant of the local tip, and reports Conflict only when neither
\* tip is an ancestor of the other.
C31_PullClassifiesBranches ==
    [][\A name \in DOMAIN local.branches :
          Pull_handles(name) =>
              LET reported == conv'.results[name]
                  on_remote == name \in DOMAIN remote.branches
                  local_tip == local.branches[name]
              IN  /\ reported = "FastForward" <=>
                         /\ on_remote
                         /\ local_tip # remote.branches[name]
                         /\ local_tip \in Ancestors(remote.branches[name])
                  /\ reported = "Conflict" =>
                         /\ on_remote
                         /\ local_tip \notin Ancestors(remote.branches[name])
                         /\ remote.branches[name] \notin Ancestors(local_tip)]_vars

\* C32: every call of current_user() returns; it never stays blocked on the
\* lock of the current-user cell, also when the selected user is closed or
\* has no private key.
C32_CurrentUserReturns ==
    call.op = "current_user" => call.ends = "returned"

\* C33: when append_snapshot or save_snapshot has returned an error, the
\* repository is as it was before the call: the branches, HEAD and the
\* nodes and edges of the DAG are the same.
C33_FailedAppendChangesNothing ==
    (call.op \in {"append_snapshot", "save_snapshot"} /\ call.ends = "error") =>
        /\ local.branches = call.before.branches
        /\ local.current_hash = call.before.current_hash
        /\ local.history = call.before.history

\* The turn of the push client's loop that handles the branch name.
Push_handles(name) ==
    /\ conv.phase = "branches" /\ conv.kind = "push" /\ name \in conv.todo
    /\ conv'.phase = "branches" /\ name \notin conv'.todo

\* The action the server recorded last in the step.
Push_recorded ==
    IF remote'.action_history.index > remote.action_history.index
    THEN remote'.action_history.inner[remote'.action_history.index].type
    ELSE "none"

\* C34: a push reports CreatedOnRemote for a branch exactly when the branch
\* was not on the remote before, and FastForward exactly when it was there
\* and has been advanced to the local tip; the server records CreateBranch
\* in the first case and MoveBranch in the second.
C34_PushLabelsBranches ==
    [][\A name \in DOMAIN local.branches :
          Push_handles(name) =>
              LET reported == conv'.results[name]
                  on_remote == name \in DOMAIN remote.branches
              IN  /\ reported = "CreatedOnRemote" <=>
                         (~on_remote /\ Push_recorded = "CreateBranch")
                  /\ reported = "FastForward" <=>
                         /\ on_remote
                         /\ remote.branches[name] # local.branches[name]
                         /\ remote'.branches[name] = local.branches[name]
                         /\ Push_recorded = "MoveBranch"]_vars

\* C35: the hash stored in a CreateBranch or CreateTag action that a step
\* has recorded is the hash the step has installed under that name.
C35_RecordedHashIsInstalled ==
    [][\A i \in (local.action_history.index + 1)..local'.action_history.index :
          LET action == local'.action_history.inner[i]
          IN  /\ action.type = "CreateBranch" =>
                     /\ action.name \in DOMAIN local'.branches
                     /\ local'.branches[action.name] = action.hash
              /\ action.type = "CreateTag" =>
                     /\ action.name \in DOMAIN local'.tags
                     /\ local'.tags[action.name] = action.hash]_vars

\* C36: after `asc stash new` has completed, the stash entry it created is
\* in the saved repository.
C36_StashNewKeepsEntry ==
    (cwd.last.op = "stash new" /\ cwd.last.result = "ok") =>
        cwd.last.id \in DOMAIN cwd.stash

\* C37: HEAD is not in the trash, neither as an entry of it nor as a
\* descendant of an entry.
C37_HeadNotInTrash ==
    Repository_trash_contains(local, local.current_hash).status = "None"

\* No node of the graph is reached from its own parents.
Graph_acyclic(g) ==
    \A n \in DOMAIN g : n \notin Graph_reach(g, g[n], {})

C39_PushTruncatesThenAppends ==
    LET ah == local.action_history
    IN  /\ ah.index \in 0..Len(ah.inner)
        /\ call.op = "push" =>
               /\ ah.inner = Append(SubSeq(call.before.inner, 1, call.before.index),
                                    call.action)
               /\ ah.index = Len(ah.inner)
               /\ ~ActionHistory_can_redo(ah)

\* A push onto a history that had undone records beyond the cursor.
C39_Witness ==
    /\ call.op = "push"
    /\ Len(call.before.inner) > call.before.index
    /\ call.before.index > 0

\* C40: a conversation holds the exclusive lock of its Repository from its
\* first access until it returns: while a handler is between lock and return
\* it owns the mutex, the accesses of two handlers on the same handle are
\* never interleaved, and the tip a handler replaces is the tip it read.
C40_ConversationsDoNotInterleave ==
    LET c == Handlers_of(call)
    IN  /\ \A t \in Handlers :
               c.pc[t] \in {"locked", "read", "updated"} => c.owner = t
        /\ \A i, j, k \in 1..Len(c.accesses) :
               (i < j /\ j < k /\ c.accesses[i] = c.accesses[k])
                   => c.accesses[j] = c.accesses[i]
        /\ \A t \in Handlers :
               c.previous[t] # NoTip => c.previous[t] = c.seen[t]

\* Two handlers ran on the handle, one called while the other held the lock,
\* and both read and moved the branch.
C40_Witness ==
    /\ call.op = "handlers"
    /\ call.contended
    /\ \A t \in Handlers : call.pc[t] = "returned" /\ call.previous[t] # NoTip
    /\ \E t \in Handlers : call.previous[t] # RootHash

====
